---- MODULE Spec2Model ----
(***************************************************************************)
(* Model of linear-mcp-server (src/index.ts): the request dispatcher       *)
(* (read-resource and call-tool handlers), the tracker client adapter      *)
(* LinearMCPClient and the argument schemas.                               *)
(*                                                                         *)
(* A handler is an async function: it runs to its next await, the remote   *)
(* tracker answers, it runs on.  Each handler is written here as a         *)
(* function of the answers received so far (rs): it yields the next remote *)
(* call, or the handler's return value, or the error it throws.            *)
(*                                                                         *)
(* Strings are sequences of tokens.  The tokens ":", "/" and "\n" are the  *)
(* characters the URI pattern looks at; every other token is a non-empty   *)
(* run of other characters, and no token is a concatenation of others.     *)
(***************************************************************************)
EXTENDS Integers, Sequences, FiniteSets, TLC

\* ------------------------------------------------------------------ bounds

\* issues the tracker lets the server create in one run
MaxIssues == 1
\* distinct issue nodes in the tracker's short result lists
MaxNodes == 2

\* ------------------------------------------------------- JavaScript values

Undef == [t |-> "undefined"]
Null == [t |-> "null"]
\* a string value; s is a sequence of tokens
Str(s) == [t |-> "string", s |-> s]
\* a string of one token
S(tok) == Str(<<tok>>)
\* a number, held in halves so that a non-integer (2.5) can be an argument
NumHalves(h) == [t |-> "number", twice |-> h]
Num(n) == NumHalves(2 * n)
Bool(b) == [t |-> "boolean", b |-> b]
\* an array value
List(items) == [t |-> "array", items |-> items]
\* a function or object inherited from Object.prototype
Inherited == [t |-> "function"]

\* JavaScript's ToBoolean, as used by `if (x)`, `!x` and `x || d`
Truthy(v) ==
  CASE v.t = "undefined" -> FALSE
    [] v.t = "null" -> FALSE
    [] v.t = "string" -> v.s # <<>>
    [] v.t = "number" -> v.twice # 0
    [] v.t = "boolean" -> v.b
    [] OTHER -> TRUE

\* a || d
OrElse(a, d) == IF Truthy(a) THEN a ELSE d

\* ------------------------------------------------------------ sequences

Min(a, b) == IF a <= b THEN a ELSE b

\* the elements of s from position n+1 on
Drop(s, n) == IF n >= Len(s) THEN <<>> ELSE SubSeq(s, n + 1, Len(s))

\* the first n elements of s
Take(s, n) == SubSeq(s, 1, Min(n, Len(s)))

\* sub occurs in s as a contiguous run
Contains(s, sub) ==
  \E i \in 0..(Len(s) - Len(sub)) : SubSeq(s, i + 1, i + Len(sub)) = sub

\* the positions of s holding tok
Positions(s, tok) == {i \in 1..Len(s) : s[i] = tok}

\* the least element of a non-empty set of integers
Least(set) == CHOOSE i \in set : \A j \in set : i <= j

\* ------------------------------------------------------------------ errors

\* new Error(msg)
JsError(msg) == [kind |-> "Error", msg |-> msg, response |-> FALSE, errors |-> <<>>]

\* the TypeError of reading a property of undefined
JsTypeError == [kind |-> "TypeError", msg |-> <<"Cannot read properties of undefined">>,
                response |-> FALSE, errors |-> <<>>]

\* The errors a remote call can reject with: the tracker client's error, which
\* may or may not carry a `response` property.
RemoteErrors ==
  {[kind |-> "Error", msg |-> <<"remote call failed">>, response |-> b, errors |-> <<>>] :
     b \in BOOLEAN}

\* ------------------------------------------------- steps of an async function

\* the function is suspended on a batch of remote calls issued together and
\* awaited together (one call, or Promise.all over the calls' promises)
Call(batch) == [k |-> "call", batch |-> batch, inTurn |-> FALSE]
\* The function is suspended on a batch of remote calls issued together whose
\* promises it awaits one after the other: while it awaits one, and after it
\* threw, the later ones have no rejection handler.
CallInTurn(batch) == [k |-> "call", batch |-> batch, inTurn |-> TRUE]
\* the function returned val, having consumed `used` answers
Ok(val, used) == [k |-> "ok", val |-> val, used |-> used]
\* the function threw err, having consumed `used` answers
Err(err, used) == [k |-> "err", err |-> err, used |-> used]

\* a step of an inner function seen from its caller, who had already consumed n answers
Shift(step, n) ==
  IF step.k = "call" THEN step ELSE [step EXCEPT !.used = @ + n]

\* ----------------------------------------------------------- tracker data

\* the users the credential can belong to
Users == {"user-1", "user-2"}

DefaultSearchLimit == 10
DefaultUserIssuesLimit == 50

\* the id, identifier and url the tracker gives the k-th issue created
IssueId(k) == <<"issue-", ToString(k)>>
IssueIdentifier(k) == <<"NEW-", ToString(k)>>
IssueUrl(k) == <<"https://linear.app/issue/NEW-", ToString(k)>>

\* the issue object the client library hands out for the k-th created issue
StoredIssue(store, k) ==
  [id |-> Str(IssueId(k)),
   identifier |-> Str(IssueIdentifier(k)),
   title |-> store[k].title,
   url |-> Str(IssueUrl(k))]

\* the issues of the tracker's catalogue that list queries answer with
NodeIssue(n) ==
  [id |-> Str(<<"node-", ToString(n)>>),
   identifier |-> Str(<<"ENG-", ToString(n)>>),
   title |-> Str(<<"title-", ToString(n)>>),
   priority |-> Num(n % 5),
   url |-> Str(<<"https://linear.app/issue/ENG-", ToString(n)>>)]

\* the names of the related entities of catalogue issue n
NodeState(n) == IF n % 2 = 0 THEN [name |-> S("Backlog")] ELSE [name |-> S("In Progress")]
NodeAssignee(n) == IF n % 3 = 0 THEN Undef ELSE [name |-> S("Ada")]
NodeTeam(n) == [name |-> S("Engineering")]
NodeLabels(n) == [nodes |-> IF n % 2 = 0 THEN <<>> ELSE <<[name |-> S("bug")]>>]

\* sequences without repetition over a set of nodes, up to the set's size
RECURSIVE Arrangements(_)
Arrangements(nodes) ==
  {<<>>} \cup
  UNION {{<<n>> \o rest : rest \in Arrangements(nodes \ {n})} : n \in nodes}

\* The lists of matching issues the tracker may hold for a list query: the short
\* ones, and one longer than each default page size.
ResultLists ==
  Arrangements(1..MaxNodes) \cup
  {[i \in 1..(DefaultSearchLimit + 1) |-> i],
   [i \in 1..(DefaultUserIssuesLimit + 1) |-> i]}

\* a page size the tracker accepts: a positive integer
ValidPageSize(first) ==
  first.t = "number" /\ first.twice % 2 = 0 /\ first.twice > 0

\* the tracker's pagination: at most `first` nodes of the matching list
Page(list, first) == Take(list, first.twice \div 2)

\* the k with IssueId(k) = id among the created issues, or 0
Lookup(store, id) ==
  IF \E k \in 1..Len(store) : Str(IssueId(k)) = id
  THEN CHOOSE k \in 1..Len(store) : Str(IssueId(k)) = id
  ELSE 0

\* ------------------------------------------------- LinearMCPClient (adapter)

\* an argument object of searchIssues with every field absent
NoSearchArgs ==
  [query |-> Undef, teamId |-> Undef, limit |-> Undef, status |-> Undef,
   assigneeId |-> Undef, labels |-> Undef, priority |-> Undef, estimate |-> Undef,
   includeArchived |-> Undef]

\* one clause of the filter object sent to the tracker
Clause(field, op, val) == [field |-> field, op |-> op, val |-> val]

\* buildSearchFilter: the filter object, as the set of its clauses
buildSearchFilter(args) ==
  (IF Truthy(args.query)
     THEN {Clause("or", "title.contains|description.contains", args.query)} ELSE {})
  \cup (IF Truthy(args.teamId) THEN {Clause("team", "id.eq", args.teamId)} ELSE {})
  \cup (IF Truthy(args.status) THEN {Clause("state", "name.eq", args.status)} ELSE {})
  \cup (IF Truthy(args.assigneeId)
          THEN {Clause("assignee", "id.eq", args.assigneeId)} ELSE {})
  \cup (IF Truthy(args.labels) /\ Len(args.labels.items) > 0
          THEN {Clause("labels", "some.name.in", args.labels)} ELSE {})
  \cup (IF Truthy(args.priority) THEN {Clause("priority", "eq", args.priority)} ELSE {})
  \cup (IF Truthy(args.estimate) THEN {Clause("estimate", "eq", args.estimate)} ELSE {})

\* the related-entity fetches searchIssues issues for one result node
SearchRelated(n) ==
  <<[op |-> "issue.state", node |-> n],
    [op |-> "issue.assignee", node |-> n],
    [op |-> "issue.labels", node |-> n]>>

\* the concatenation of f[1], f[2], ... f[Len(f)]
RECURSIVE Flatten(_)
Flatten(f) == IF f = <<>> THEN <<>> ELSE Head(f) \o Flatten(Tail(f))

\* the record searchIssues builds for result node nodes[i] from the answers
\* to its three related fetches
SearchRecord(nodes, vals, i) ==
  LET issue == NodeIssue(nodes[i])
      state == vals[3 * (i - 1) + 1]
      assignee == vals[3 * (i - 1) + 2]
      labels == vals[3 * (i - 1) + 3]
  IN  [id |-> issue.id,
       identifier |-> issue.identifier,
       title |-> issue.title,
       priority |-> issue.priority,
       status |-> IF state = Undef THEN Null ELSE OrElse(state.name, Null),
       assignee |-> IF assignee = Undef THEN Null ELSE OrElse(assignee.name, Null),
       labels |-> IF labels = Undef THEN List(<<>>)
                  ELSE List([j \in 1..Len(labels.nodes) |-> labels.nodes[j].name]),
       url |-> issue.url]

\* the page size of getUserIssues used by searchIssues
SearchPageSize_userDefault(args) == OrElse(args.limit, Num(DefaultUserIssuesLimit))

\* first: args.limit || 10
SearchPageSize(args) == OrElse(args.limit, Num(DefaultSearchLimit))

\* a search that returns the issues resolved so far, none, when a related
\* fetch fails
searchIssues_partial(args, rs) ==
  IF Len(rs) = 0
  THEN Call(<<[op |-> "issues",
               filter |-> buildSearchFilter(args),
               first |-> SearchPageSize(args),
               includeArchived |-> args.includeArchived]>>)
  ELSE IF ~rs[1].ok THEN Err(rs[1].err, 1)
  ELSE LET nodes == rs[1].val[1].nodes IN
    IF nodes = <<>> THEN Ok(<<>>, 1)
    ELSE IF Len(rs) = 1
    THEN Call(Flatten([i \in 1..Len(nodes) |-> SearchRelated(nodes[i])]))
    ELSE IF ~rs[2].ok THEN Ok(<<>>, 2)
    ELSE Ok([i \in 1..Len(nodes) |-> SearchRecord(nodes, rs[2].val, i)], 2)

\* searchIssues(args), given the answers rs received so far
searchIssues(args, rs) ==
  IF Len(rs) = 0
  THEN Call(<<[op |-> "issues",
               filter |-> buildSearchFilter(args),
               first |-> SearchPageSize(args),
               includeArchived |-> args.includeArchived]>>)
  ELSE IF ~rs[1].ok THEN Err(rs[1].err, 1)
  ELSE LET nodes == rs[1].val[1].nodes IN
    IF nodes = <<>> THEN Ok(<<>>, 1)
    ELSE IF Len(rs) = 1
    THEN Call(Flatten([i \in 1..Len(nodes) |-> SearchRelated(nodes[i])]))
    ELSE IF ~rs[2].ok THEN Err(rs[2].err, 2)
    ELSE Ok([i \in 1..Len(nodes) |-> SearchRecord(nodes, rs[2].val, i)], 2)

\* getViewer(), given the answers rs received so far
getViewer(rs) ==
  IF Len(rs) = 0 THEN Call(<<[op |-> "viewer"]>>)
  ELSE IF ~rs[1].ok THEN Err(rs[1].err, 1)
  ELSE LET viewer == rs[1].val[1] IN
    IF viewer = Undef THEN Err(JsTypeError, 1)
    ELSE IF Len(rs) = 1
    THEN Call(<<[op |-> "user.teams", user |-> viewer.id], [op |-> "organization"]>>)
    ELSE IF ~rs[2].ok THEN Err(rs[2].err, 2)
    ELSE LET teams == rs[2].val[1]
             organization == rs[2].val[2]
         IN  Ok([id |-> viewer.id,
                 name |-> viewer.name,
                 teams |-> List([i \in 1..Len(teams.nodes) |->
                                  [id |-> teams.nodes[i].id, name |-> teams.nodes[i].name]]),
                 organization |-> [id |-> organization.id, name |-> organization.name]], 2)

\* getOrganization(), given the answers rs received so far
getOrganization(rs) ==
  IF Len(rs) = 0 THEN Call(<<[op |-> "organization"]>>)
  ELSE IF ~rs[1].ok THEN Err(rs[1].err, 1)
  ELSE LET organization == rs[1].val[1] IN
    IF Len(rs) = 1
    THEN Call(<<[op |-> "organization.teams"], [op |-> "organization.users"]>>)
    ELSE IF ~rs[2].ok THEN Err(rs[2].err, 2)
    ELSE LET teams == rs[2].val[1]
             users == rs[2].val[2]
         IN  Ok([id |-> organization.id,
                 name |-> organization.name,
                 teams |-> List([i \in 1..Len(teams.nodes) |->
                                  [id |-> teams.nodes[i].id, name |-> teams.nodes[i].name]]),
                 users |-> List([i \in 1..Len(users.nodes) |->
                                  [id |-> users.nodes[i].id, name |-> users.nodes[i].name]])], 2)

\* an argument object of getUserIssues with every field absent
NoUserIssuesArgs == [userId |-> Undef, includeArchived |-> Undef, limit |-> Undef]

\* the record getUserIssues builds for result node nodes[i]
UserIssueRecord(nodes, vals, i) ==
  LET issue == NodeIssue(nodes[i])
      state == vals[i]
  IN  [id |-> issue.id,
       identifier |-> issue.identifier,
       title |-> issue.title,
       priority |-> issue.priority,
       status |-> IF state = Undef THEN Null ELSE OrElse(state.name, Null),
       url |-> issue.url]

\* first: args.limit || 50
UserIssuesPageSize(args) == OrElse(args.limit, Num(DefaultUserIssuesLimit))

\* the try block of getUserIssues(args), given the answers rs received so far
getUserIssuesTry(args, rs) ==
  IF Len(rs) = 0
  THEN IF Truthy(args.userId) /\ args.userId.t = "string"
       THEN Call(<<[op |-> "user", id |-> args.userId]>>)
       ELSE Call(<<[op |-> "viewer"]>>)
  ELSE IF ~rs[1].ok THEN Err(rs[1].err, 1)
  ELSE LET user == rs[1].val[1] IN
    IF user = Undef THEN Err(JsTypeError, 1)
    ELSE IF Len(rs) = 1
    THEN Call(<<[op |-> "user.assignedIssues",
                 user |-> user.id,
                 first |-> UserIssuesPageSize(args),
                 includeArchived |-> args.includeArchived]>>)
    ELSE IF ~rs[2].ok THEN Err(rs[2].err, 2)
    ELSE LET result == rs[2].val[1] IN
      IF result = Undef THEN Ok(<<>>, 2)
      ELSE LET nodes == result.nodes IN
      IF nodes = <<>> THEN Ok(<<>>, 2)
      ELSE IF Len(rs) = 2
      THEN Call([i \in 1..Len(nodes) |-> [op |-> "issue.state", node |-> nodes[i]]])
      ELSE IF ~rs[3].ok THEN Err(rs[3].err, 3)
      ELSE Ok([i \in 1..Len(nodes) |-> UserIssueRecord(nodes, rs[3].val, i)], 3)

\* a catch block that logs the error and returns no issues
getUserIssuesCatch_empty(step) == Ok(<<>>, step.used)

\* the catch block of getUserIssues: it logs the error and throws it again
getUserIssuesCatch(step) == Err(step.err, step.used)

\* getUserIssues(args), given the answers rs received so far
getUserIssues(args, rs) ==
  LET step == getUserIssuesTry(args, rs) IN
    IF step.k = "err" THEN getUserIssuesCatch(step) ELSE step

\* the related-entity fetches getIssueDetails issues for an issue
DetailFetches(issue) ==
  <<[op |-> "issue.state", issue |-> issue],
    [op |-> "issue.assignee", issue |-> issue],
    [op |-> "issue.team", issue |-> issue]>>

\* x?.name
NameOf(x) == IF x = Undef THEN Undef ELSE x.name

\* a record whose title is taken from the issue's identifier
IssueRecord_titleFromIdentifier(result, details) ==
  [id |-> result.id,
   identifier |-> result.identifier,
   title |-> result.identifier,
   status |-> NameOf(details[1]),
   assignee |-> NameOf(details[2]),
   team |-> NameOf(details[3]),
   url |-> result.url]

\* The record getIssue returns for the issue and its related entities.  The
\* issues of this model carry no description and no priority of their own, so
\* these two properties are left out of the record.
IssueRecord(result, details) ==
  [id |-> result.id,
   identifier |-> result.identifier,
   title |-> result.title,
   status |-> NameOf(details[1]),
   assignee |-> NameOf(details[2]),
   team |-> NameOf(details[3]),
   url |-> result.url]

\* getIssue(issueId), given the answers rs received so far
getIssue(issueId, rs) ==
  IF Len(rs) = 0 THEN Call(<<[op |-> "issue", id |-> issueId]>>)
  ELSE IF ~rs[1].ok THEN Err(rs[1].err, 1)
  ELSE LET result == rs[1].val[1] IN
    IF result = Undef
    THEN Err(JsError(<<"Issue ">> \o issueId.s \o <<" not found">>), 1)
    ELSE IF Len(rs) = 1 THEN CallInTurn(DetailFetches(result.id))
    ELSE IF ~rs[2].ok THEN Err(rs[2].err, 2)
    ELSE Ok(IssueRecord(result, rs[2].val), 2)

\* an input object with the optional fields filled in when absent
CreateInput_defaults(args) ==
  [title |-> args.title,
   teamId |-> args.teamId,
   description |-> IF args.description = Undef THEN Null ELSE args.description,
   priority |-> IF args.priority = Undef THEN Num(0) ELSE args.priority,
   stateId |-> args.status]

\* the input object createIssue passes to the tracker
CreateInput(args) ==
  [title |-> args.title,
   teamId |-> args.teamId,
   description |-> args.description,
   priority |-> args.priority,
   stateId |-> args.status]

\* a createIssue that sends the mutation a second time when the first is rejected
createIssue_again(args, rs) ==
  IF Len(rs) = 0
  THEN Call(<<[op |-> "createIssue", input |-> CreateInput(args)]>>)
  ELSE IF ~rs[1].ok
  THEN IF Len(rs) = 1
       THEN Call(<<[op |-> "createIssue", input |-> CreateInput(args)]>>)
       ELSE IF ~rs[2].ok THEN Err(rs[2].err, 2)
       ELSE Err(JsError(<<"Failed to create issue">>), 2)
  ELSE LET issuePayload == rs[1].val[1] IN
    IF issuePayload.issue = Undef THEN Err(JsError(<<"Failed to create issue">>), 1)
    ELSE IF Len(rs) = 1 THEN Call(<<[op |-> "issue", id |-> issuePayload.issue]>>)
    ELSE IF ~rs[2].ok THEN Err(rs[2].err, 2)
    ELSE IF rs[2].val[1] = Undef THEN Err(JsError(<<"Failed to create issue">>), 2)
    ELSE Ok(rs[2].val[1], 2)

\* createIssue(args), given the answers rs received so far
createIssue(args, rs) ==
  IF Len(rs) = 0
  THEN Call(<<[op |-> "createIssue", input |-> CreateInput(args)]>>)
  ELSE IF ~rs[1].ok THEN Err(rs[1].err, 1)
  ELSE LET issuePayload == rs[1].val[1] IN
    IF issuePayload.issue = Undef THEN Err(JsError(<<"Failed to create issue">>), 1)
    ELSE IF Len(rs) = 1 THEN Call(<<[op |-> "issue", id |-> issuePayload.issue]>>)
    ELSE IF ~rs[2].ok THEN Err(rs[2].err, 2)
    ELSE IF rs[2].val[1] = Undef THEN Err(JsError(<<"Failed to create issue">>), 2)
    ELSE Ok(rs[2].val[1], 2)

\* an input object that sends null for each field the caller left out
UpdateInput_nulls(args) ==
  [title |-> IF args.title = Undef THEN Null ELSE args.title,
   description |-> IF args.description = Undef THEN Null ELSE args.description,
   priority |-> IF args.priority = Undef THEN Null ELSE args.priority,
   stateId |-> IF args.status = Undef THEN Null ELSE args.status]

\* the input object updateIssue passes to issue.update
UpdateInput(args) ==
  [title |-> args.title,
   description |-> args.description,
   priority |-> args.priority,
   stateId |-> args.status]

\* updateIssue(args), given the answers rs received so far
updateIssue(args, rs) ==
  IF Len(rs) = 0 THEN Call(<<[op |-> "issue", id |-> args.id]>>)
  ELSE IF ~rs[1].ok THEN Err(rs[1].err, 1)
  ELSE LET issue == rs[1].val[1] IN
    IF issue = Undef
    THEN Err(JsError(<<"Issue ">> \o args.id.s \o <<" not found">>), 1)
    ELSE IF Len(rs) = 1
    THEN Call(<<[op |-> "issue.update",
                 id |-> issue.id,
                 input |-> UpdateInput(args)]>>)
    ELSE IF ~rs[2].ok THEN Err(rs[2].err, 2)
    ELSE LET updatePayload == rs[2].val[1] IN
      IF updatePayload.issue = Undef THEN Err(JsError(<<"Failed to update issue">>), 2)
      ELSE IF Len(rs) = 2 THEN Call(<<[op |-> "issue", id |-> updatePayload.issue]>>)
      ELSE IF ~rs[3].ok THEN Err(rs[3].err, 3)
      ELSE IF rs[3].val[1] = Undef THEN Err(JsError(<<"Failed to update issue">>), 3)
      ELSE Ok(rs[3].val[1], 3)

\* addComment(args), given the answers rs received so far
addComment(args, rs) ==
  IF Len(rs) = 0
  THEN Call(<<[op |-> "createComment",
               input |-> [issueId |-> args.issueId,
                          body |-> args.body,
                          createAsUser |-> args.createAsUser,
                          displayIconUrl |-> args.displayIconUrl]]>>)
  ELSE IF ~rs[1].ok THEN Err(rs[1].err, 1)
  ELSE LET commentPayload == rs[1].val[1] IN
    IF commentPayload.comment = Undef
    THEN Err(JsError(<<"Failed to create comment">>), 1)
    ELSE IF Len(rs) = 1 THEN Call(<<[op |-> "comment", ref |-> commentPayload.comment]>>)
    ELSE IF ~rs[2].ok THEN Err(rs[2].err, 2)
    ELSE LET comment == rs[2].val[1] IN
      IF comment = Undef THEN Err(JsError(<<"Failed to create comment">>), 2)
      ELSE IF comment.issue = Undef THEN Ok([comment |-> comment, issue |-> Undef], 2)
      ELSE IF Len(rs) = 2 THEN Call(<<[op |-> "issue", id |-> comment.issue]>>)
      ELSE IF ~rs[3].ok THEN Err(rs[3].err, 3)
      ELSE Ok([comment |-> comment, issue |-> rs[3].val[1]], 3)

\* the related-entity fetches getTeamIssues issues for one result node
TeamRelated(n) ==
  <<[op |-> "issue.state", node |-> n], [op |-> "issue.assignee", node |-> n]>>

\* the record getTeamIssues builds for result node nodes[i]
TeamIssueRecord(nodes, vals, i) ==
  LET issue == NodeIssue(nodes[i]) IN
    [id |-> issue.id,
     identifier |-> issue.identifier,
     title |-> issue.title,
     priority |-> issue.priority,
     status |-> NameOf(vals[2 * (i - 1) + 1]),
     assignee |-> NameOf(vals[2 * (i - 1) + 2]),
     url |-> issue.url]

\* getTeamIssues(teamId), given the answers rs received so far
getTeamIssues(teamId, rs) ==
  IF Len(rs) = 0 THEN Call(<<[op |-> "team", id |-> teamId]>>)
  ELSE IF ~rs[1].ok THEN Err(rs[1].err, 1)
  ELSE LET team == rs[1].val[1] IN
    IF team = Undef
    THEN Err(JsError(<<"Team ">> \o teamId.s \o <<" not found">>), 1)
    ELSE IF Len(rs) = 1 THEN Call(<<[op |-> "team.issues", team |-> team.id]>>)
    ELSE IF ~rs[2].ok THEN Err(rs[2].err, 2)
    ELSE LET nodes == rs[2].val[1].nodes IN
      IF nodes = <<>> THEN Ok(<<>>, 2)
      ELSE IF Len(rs) = 2
      THEN CallInTurn(Flatten([i \in 1..Len(nodes) |-> TeamRelated(nodes[i])]))
      ELSE IF ~rs[3].ok THEN Err(rs[3].err, 3)
      ELSE Ok([i \in 1..Len(nodes) |-> TeamIssueRecord(nodes, rs[3].val, i)], 3)

\* the related-entity fetches listIssues issues, through getIssueDetails, for one node
ListRelated(n) ==
  <<[op |-> "issue.state", node |-> n],
    [op |-> "issue.assignee", node |-> n],
    [op |-> "issue.team", node |-> n]>>

\* the resource descriptor listIssues builds for result node nodes[i]
ListedIssue(nodes, vals, i) ==
  LET issue == NodeIssue(nodes[i]) IN
    [uri |-> Str(<<"linear-issue", ":", "/", "/">> \o issue.id.s),
     name |-> issue.title,
     identifier |-> issue.identifier,
     priority |-> issue.priority,
     status |-> NameOf(vals[3 * (i - 1) + 1]),
     assignee |-> NameOf(vals[3 * (i - 1) + 2]),
     team |-> NameOf(vals[3 * (i - 1) + 3])]

\* listIssues(), given the answers rs received so far
listIssues(rs) ==
  IF Len(rs) = 0
  THEN Call(<<[op |-> "issues", filter |-> {}, first |-> Num(50),
               includeArchived |-> Undef, orderBy |-> "updatedAt"]>>)
  ELSE IF ~rs[1].ok THEN Err(rs[1].err, 1)
  ELSE LET nodes == rs[1].val[1].nodes IN
    IF nodes = <<>> THEN Ok(<<>>, 1)
    ELSE IF Len(rs) = 1
    THEN CallInTurn(Flatten([i \in 1..Len(nodes) |-> ListRelated(nodes[i])]))
    ELSE IF ~rs[2].ok THEN Err(rs[2].err, 2)
    ELSE Ok([i \in 1..Len(nodes) |-> ListedIssue(nodes, rs[2].val, i)], 2)

\* --------------------------------------------------------- JSON.stringify

\* JSON.stringify of an object: a property whose value is undefined is left out
StringifyObject(r) == [k \in {k \in DOMAIN r : r[k] # Undef} |-> r[k]]

\* JSON.stringify of an array of objects
StringifyList(l) == [i \in 1..Len(l) |-> StringifyObject(l[i])]

\* ----------------------------------------------- read-resource handler

\* the tokens the URI pattern tells apart
Colon == ":"
Slash == "/"
Newline == "\n"

\* (.*) : the longest run without a line terminator
UpToNewline(s) ==
  IF Positions(s, Newline) = {} THEN s ELSE SubSeq(s, 1, Least(Positions(s, Newline)) - 1)

\* protocolMatch without the two slashes: scheme:rest is taken for a match
protocolMatch_noSlashes(uri) ==
  LET colons == Positions(uri, Colon)
      i == Least(colons)
  IN  IF colons # {} /\ i > 1
      THEN [matched |-> TRUE,
            protocol |-> SubSeq(uri, 1, i - 1),
            path |-> UpToNewline(Drop(uri, i))]
      ELSE [matched |-> FALSE, protocol |-> <<>>, path |-> <<>>]

\* uri.match(/^([^:]+):\/\/(.*)/): [^:]+ ends at the first colon, which must
\* not be the first character and must be followed by two slashes
protocolMatch(uri) ==
  LET colons == Positions(uri, Colon)
      i == Least(colons)
  IN  IF colons # {} /\ i > 1 /\ Len(uri) >= i + 2
         /\ uri[i + 1] = Slash /\ uri[i + 2] = Slash
      THEN [matched |-> TRUE,
            protocol |-> SubSeq(uri, 1, i - 1),
            path |-> UpToNewline(Drop(uri, i + 2))]
      ELSE [matched |-> FALSE, protocol |-> <<>>, path |-> <<>>]

\* the tokens with upper-case letters, and their lower-case forms
LowerOf(tok) ==
  CASE tok = "URGENT" -> "urgent"
    [] tok = "None" -> "none"
    [] OTHER -> tok

\* level.toLowerCase()
toLowerCase(s) == [i \in 1..Len(s) |-> LowerOf(s[i])]

\* priorityMap[key]: the object literal's own properties, else what the
\* object inherits from Object.prototype, else undefined
priorityMap(key) ==
  CASE key = <<"urgent">> -> Num(1)
    [] key = <<"high">> -> Num(2)
    [] key = <<"medium">> -> Num(3)
    [] key = <<"low">> -> Num(4)
    [] key = <<"none">> -> Num(0)
    [] key = <<"constructor">> -> Inherited
    [] OTHER -> Undef

\* the value a read-resource handler returns
Contents(uri, text) == [uri |-> uri, mimeType |-> "application/json", text |-> text]

\* the scheme://
Scheme(name) == <<name, Colon, Slash, Slash>>

\* MyStatusRead filtering on the viewer's name in place of the viewer's id
MyStatusRead_byName(scheme, status, rs) ==
  LET viewer == getViewer(rs) IN
    IF viewer.k # "ok" THEN viewer
    ELSE LET issues ==
               Shift(searchIssues([NoSearchArgs EXCEPT !.assigneeId = viewer.val.name,
                                                       !.status = S(status)],
                                  Drop(rs, viewer.used)), viewer.used)
         IN  IF issues.k # "ok" THEN issues
             ELSE Ok(Contents(Scheme(scheme), StringifyList(issues.val)), issues.used)

\* the body shared by linear-my-backlog, -planned, -in-progress and -under-review
MyStatusRead(scheme, status, rs) ==
  LET viewer == getViewer(rs) IN
    IF viewer.k # "ok" THEN viewer
    ELSE LET issues ==
               Shift(searchIssues([NoSearchArgs EXCEPT !.assigneeId = viewer.val.id,
                                                       !.status = S(status)],
                                  Drop(rs, viewer.used)), viewer.used)
         IN  IF issues.k # "ok" THEN issues
             ELSE Ok(Contents(Scheme(scheme), StringifyList(issues.val)), issues.used)

\* the two lists combined the other way round
CombineIssues_highFirst(urgentIssues, highIssues) == highIssues \o urgentIssues

\* [...urgentIssues, ...highIssues]
CombineIssues(urgentIssues, highIssues) == urgentIssues \o highIssues

\* the linear-my-high-priority branch
MyHighPriorityRead(rs) ==
  LET viewer == getViewer(rs) IN
    IF viewer.k # "ok" THEN viewer
    ELSE LET urgentIssues ==
               Shift(searchIssues([NoSearchArgs EXCEPT !.assigneeId = viewer.val.id,
                                                       !.priority = Num(1)],
                                  Drop(rs, viewer.used)), viewer.used)
         IN  IF urgentIssues.k # "ok" THEN urgentIssues
             ELSE LET highIssues ==
                        Shift(searchIssues([NoSearchArgs EXCEPT !.assigneeId = viewer.val.id,
                                                                !.priority = Num(2)],
                                           Drop(rs, urgentIssues.used)), urgentIssues.used)
                  IN  IF highIssues.k # "ok" THEN highIssues
                      ELSE Ok(Contents(Scheme("linear-my-high-priority"),
                                       StringifyList(CombineIssues(urgentIssues.val,
                                                                   highIssues.val))),
                              highIssues.used)

\* the linear-priority branch without its test for an empty level
PriorityRead_noEmptyTest(level, rs) ==
  LET priority == priorityMap(toLowerCase(level)) IN
    IF priority = Undef
    THEN Err(JsError(<<"Invalid priority level: ">> \o level
                     \o <<". Valid values are: urgent, high, medium, low, none">>), 0)
    ELSE LET issues == searchIssues([NoSearchArgs EXCEPT !.priority = priority], rs) IN
      IF issues.k # "ok" THEN issues
      ELSE Ok(Contents(Scheme("linear-priority") \o level, StringifyList(issues.val)),
              issues.used)

\* the linear-priority branch
PriorityRead(level, rs) ==
  IF level = <<>>
  THEN Err(JsError(<<"Priority level is required for linear-priority resource">>), 0)
  ELSE LET priority == priorityMap(toLowerCase(level)) IN
    IF priority = Undef
    THEN Err(JsError(<<"Invalid priority level: ">> \o level
                     \o <<". Valid values are: urgent, high, medium, low, none">>), 0)
    ELSE LET issues == searchIssues([NoSearchArgs EXCEPT !.priority = priority], rs) IN
      IF issues.k # "ok" THEN issues
      ELSE Ok(Contents(Scheme("linear-priority") \o level, StringifyList(issues.val)),
              issues.used)

\* a branch that awaits one adapter operation and wraps its value
ReadVia(step, uri, text(_)) ==
  IF step.k # "ok" THEN step ELSE Ok(Contents(uri, text(step.val)), step.used)

\* The ReadResourceRequestSchema handler for request.params.uri = uri, given
\* the answers rs received so far.
ReadResourceHandler(uri, rs) ==
  LET m == protocolMatch(uri)
      protocol == m.protocol
      path == m.path
  IN
  IF ~m.matched THEN Err(JsError(<<"Invalid URI format: ">> \o uri), 0)
  ELSE IF protocol = <<"linear-organization">>
    THEN ReadVia(getOrganization(rs), Scheme("linear-organization"), StringifyObject)
  ELSE IF protocol = <<"linear-viewer">>
    THEN ReadVia(getViewer(rs), Scheme("linear-viewer"), StringifyObject)
  ELSE IF protocol = <<"linear-my-issues">>
    THEN ReadVia(getUserIssues([NoUserIssuesArgs EXCEPT !.userId = Undef], rs),
                 Scheme("linear-my-issues"), StringifyList)
  ELSE IF protocol = <<"linear-my-backlog">>
    THEN MyStatusRead("linear-my-backlog", "Backlog", rs)
  ELSE IF protocol = <<"linear-my-planned">>
    THEN MyStatusRead("linear-my-planned", "Planned this Cycle", rs)
  ELSE IF protocol = <<"linear-my-in-progress">>
    THEN MyStatusRead("linear-my-in-progress", "In Progress", rs)
  ELSE IF protocol = <<"linear-my-under-review">>
    THEN MyStatusRead("linear-my-under-review", "Under Review", rs)
  ELSE IF protocol = <<"linear-my-high-priority">>
    THEN MyHighPriorityRead(rs)
  ELSE IF protocol = <<"linear-recent-issues">>
    THEN ReadVia(listIssues(rs), Scheme("linear-recent-issues"), StringifyList)
  ELSE IF protocol = <<"linear-issue">>
    THEN IF path = <<>>
         THEN Err(JsError(<<"Issue ID is required for linear-issue resource">>), 0)
         ELSE ReadVia(getIssue(Str(path), rs), Scheme("linear-issue") \o path,
                      StringifyObject)
  ELSE IF protocol = <<"linear-team">>
    THEN IF path = <<>>
         THEN Err(JsError(<<"Team ID is required for linear-team resource">>), 0)
         ELSE ReadVia(getTeamIssues(Str(path), rs), Scheme("linear-team") \o path,
                      StringifyList)
  ELSE IF protocol = <<"linear-user">>
    THEN IF path = <<>>
         THEN Err(JsError(<<"User ID is required for linear-user resource">>), 0)
         ELSE ReadVia(getUserIssues([NoUserIssuesArgs EXCEPT
                                       !.userId = IF path = <<"me">> THEN Undef
                                                  ELSE Str(path)], rs),
                      Scheme("linear-user") \o path, StringifyList)
  ELSE IF protocol = <<"linear-search">>
    THEN IF path = <<>>
         THEN Err(JsError(<<"Search query is required for linear-search resource">>), 0)
         ELSE ReadVia(searchIssues([NoSearchArgs EXCEPT !.query = Str(path)], rs),
                      Scheme("linear-search") \o path, StringifyList)
  ELSE IF protocol = <<"linear-priority">>
    THEN PriorityRead(path, rs)
  ELSE Err(JsError(<<"Unsupported resource URI: ">> \o uri), 0)

\* ------------------------------------------------------- argument schemas

\* one property of a z.object schema; min and max apply to numbers
Field(key, type, required) ==
  [key |-> key, type |-> type, required |-> required, ranged |-> FALSE, min |-> 0, max |-> 0]
RangedNumber(key, required, min, max) ==
  [key |-> key, type |-> "number", required |-> required, ranged |-> TRUE,
   min |-> min, max |-> max]

CreateIssueArgsSchema ==
  <<Field("title", "string", TRUE),
    Field("teamId", "string", TRUE),
    Field("description", "string", FALSE),
    RangedNumber("priority", FALSE, 0, 4),
    Field("status", "string", FALSE)>>

UpdateIssueArgsSchema ==
  <<Field("id", "string", TRUE),
    Field("title", "string", FALSE),
    Field("description", "string", FALSE),
    Field("priority", "number", FALSE),
    Field("status", "string", FALSE)>>

SearchIssuesArgsSchema ==
  <<Field("query", "string", FALSE),
    Field("teamId", "string", FALSE),
    Field("status", "string", FALSE),
    Field("assigneeId", "string", FALSE),
    Field("labels", "string[]", FALSE),
    Field("priority", "number", FALSE),
    Field("estimate", "number", FALSE),
    Field("includeArchived", "boolean", FALSE),
    Field("limit", "number", FALSE)>>

GetUserIssuesArgsSchema ==
  <<Field("userId", "string", FALSE),
    Field("includeArchived", "boolean", FALSE),
    Field("limit", "number", FALSE)>>

AddCommentArgsSchema ==
  <<Field("issueId", "string", TRUE),
    Field("body", "string", TRUE),
    Field("createAsUser", "string", FALSE),
    Field("displayIconUrl", "string", FALSE)>>

\* args[key], undefined when the object has no such property
Get(args, key) == IF key \in DOMAIN args THEN args[key] ELSE Undef

\* one entry of ZodError.errors
ZodIssue(path, message) == [path |-> path, message |-> message]

\* the issues zod raises for value v of property f
FieldIssues(f, v) ==
  IF v = Undef
  THEN IF f.required THEN <<ZodIssue(<<f.key>>, <<"Required">>)>> ELSE <<>>
  ELSE IF f.type = "string[]"
  THEN IF v.t # "array"
       THEN <<ZodIssue(<<f.key>>, <<"Expected array, received ", v.t>>)>>
       ELSE LET bad == [i \in 1..Len(v.items) |->
                          IF v.items[i].t = "string" THEN <<>>
                          ELSE <<ZodIssue(<<f.key, ToString(i - 1)>>,
                                          <<"Expected string, received ", v.items[i].t>>)>>]
            IN  Flatten(bad)
  ELSE IF v.t # f.type
  THEN <<ZodIssue(<<f.key>>, <<"Expected ", f.type, ", received ", v.t>>)>>
  ELSE IF f.ranged /\ v.twice < 2 * f.min
  THEN <<ZodIssue(<<f.key>>, <<"Number must be greater than or equal to ", ToString(f.min)>>)>>
  ELSE IF f.ranged /\ v.twice > 2 * f.max
  THEN <<ZodIssue(<<f.key>>, <<"Number must be less than or equal to ", ToString(f.max)>>)>>
  ELSE <<>>

\* a parse that stops at the first property with an issue
ZodIssues_firstOnly(schema, args) ==
  LET all == Flatten([i \in 1..Len(schema) |->
                        FieldIssues(schema[i], Get(args, schema[i].key))])
  IN  IF all = <<>> THEN <<>> ELSE <<all[1]>>

\* the issues schema.parse(args) raises, in the schema's property order
ZodIssues(schema, args) ==
  Flatten([i \in 1..Len(schema) |-> FieldIssues(schema[i], Get(args, schema[i].key))])

\* new ZodError(issues)
ZodError(issues) ==
  [kind |-> "ZodError", msg |-> <<"zod validation failed">>, response |-> FALSE,
   errors |-> issues]

\* the object schema.parse(args) returns: the schema's properties only
Parsed(schema, args) ==
  [k \in {schema[i].key : i \in 1..Len(schema)} |-> Get(args, k)]

\* --------------------------------------------------- call-tool handler

\* `${v}` in a template literal
Text(v) ==
  CASE v.t = "string" -> v.s
    [] v.t = "number" -> IF v.twice % 2 = 0 THEN <<ToString(v.twice \div 2)>>
                          ELSE <<ToString(v.twice \div 2), ".5">>
    [] v.t = "array" -> <<"(array)">>
    [] OTHER -> <<v.t>>

\* the successful response of a tool
TextResponse(text) == [content |-> <<[type |-> "text", text |-> text]>>]

\* one line group of the issue list of linear_search_issues and linear_get_user_issues
IssueLines(issue) ==
  <<"- ">> \o Text(issue.identifier) \o <<": ">> \o Text(issue.title)
  \o <<"\n  Priority: ">> \o Text(OrElse(issue.priority, S("None")))
  \o <<"\n  Status: ">> \o Text(OrElse(issue.status, S("None")))
  \o <<"\n  ">> \o Text(issue.url)

\* lines.join('\n')
RECURSIVE JoinLines(_)
JoinLines(lines) ==
  IF lines = <<>> THEN <<>>
  ELSE IF Len(lines) = 1 THEN lines[1]
  ELSE lines[1] \o <<"\n">> \o JoinLines(Tail(lines))

\* the text of linear_search_issues and linear_get_user_issues
FoundText(issues) ==
  <<"Found ", ToString(Len(issues)), " issues:\n">>
  \o JoinLines([i \in 1..Len(issues) |-> IssueLines(issues[i])])

\* a case of the switch: parse, await one adapter operation, build the text
ToolCase(schema, args, op(_, _), text(_), rs) ==
  IF ZodIssues(schema, args) # <<>> THEN Err(ZodError(ZodIssues(schema, args)), 0)
  ELSE LET step == op(Parsed(schema, args), rs) IN
    IF step.k # "ok" THEN step ELSE Ok(TextResponse(text(step.val)), step.used)

CreatedText(issue) ==
  <<"Created issue ">> \o Text(issue.identifier) \o <<": ">> \o Text(issue.title)
  \o <<"\nURL: ">> \o Text(issue.url)

UpdatedText(issue) ==
  <<"Updated issue ">> \o Text(issue.identifier) \o <<"\nURL: ">> \o Text(issue.url)

CommentedText(r) ==
  <<"Added comment to issue ">>
  \o (IF r.issue = Undef THEN <<"undefined">> ELSE Text(r.issue.identifier))
  \o <<"\nURL: ">> \o Text(r.comment.url)

\* a try block that looks at the tool name before it tests the arguments
CallToolTry_nameFirst(name, args, rs) ==
  IF name \notin {"linear_create_issue", "linear_update_issue", "linear_search_issues",
                  "linear_get_user_issues", "linear_add_comment"}
  THEN Err(JsError(<<"Unknown tool: ", name>>), 0)
  ELSE IF args = Undef THEN Err(JsError(<<"Missing arguments">>), 0)
  ELSE IF name = "linear_create_issue"
    THEN ToolCase(CreateIssueArgsSchema, args, createIssue, CreatedText, rs)
  ELSE IF name = "linear_update_issue"
    THEN ToolCase(UpdateIssueArgsSchema, args, updateIssue, UpdatedText, rs)
  ELSE IF name = "linear_search_issues"
    THEN ToolCase(SearchIssuesArgsSchema, args, searchIssues, FoundText, rs)
  ELSE IF name = "linear_get_user_issues"
    THEN ToolCase(GetUserIssuesArgsSchema, args, getUserIssues, FoundText, rs)
  ELSE ToolCase(AddCommentArgsSchema, args, addComment, CommentedText, rs)

\* the try block of the CallToolRequestSchema handler
CallToolTry(name, args, rs) ==
  IF args = Undef THEN Err(JsError(<<"Missing arguments">>), 0)
  ELSE IF name = "linear_create_issue"
    THEN ToolCase(CreateIssueArgsSchema, args, createIssue, CreatedText, rs)
  ELSE IF name = "linear_update_issue"
    THEN ToolCase(UpdateIssueArgsSchema, args, updateIssue, UpdatedText, rs)
  ELSE IF name = "linear_search_issues"
    THEN ToolCase(SearchIssuesArgsSchema, args, searchIssues, FoundText, rs)
  ELSE IF name = "linear_get_user_issues"
    THEN ToolCase(GetUserIssuesArgsSchema, args, getUserIssues, FoundText, rs)
  ELSE IF name = "linear_add_comment"
    THEN ToolCase(AddCommentArgsSchema, args, addComment, CommentedText, rs)
  ELSE Err(JsError(<<"Unknown tool: ", name>>), 0)

\* The catch block of the CallToolRequestSchema handler: the response for
\* error.  The details of the second branch (status and data of
\* error.response) are left out of the text.
CallToolCatch(error) ==
  IF error.kind = "ZodError"
  THEN [content |-> <<[type |-> "text",
                       text |-> [error |-> [type |-> "VALIDATION_ERROR",
                                            message |-> <<"Invalid request parameters">>,
                                            details |-> [i \in 1..Len(error.errors) |->
                                               [path |-> error.errors[i].path,
                                                message |-> error.errors[i].message,
                                                code |-> "VALIDATION_ERROR"]]]]]>>,
        metadata |-> [error |-> TRUE]]
  ELSE IF error.response
  THEN [error |-> [code |-> "linear_api_error",
                   content |-> <<[type |-> "text", text |-> [message |-> error.msg]]>>]]
  ELSE [content |-> <<[type |-> "text",
                       text |-> [error |-> [type |-> "UNKNOWN_ERROR",
                                            message |-> error.msg]]]>>,
        metadata |-> [error |-> TRUE]]

\* The CallToolRequestSchema handler: it never throws
CallToolHandler(name, args, rs) ==
  LET step == CallToolTry(name, args, rs) IN
    IF step.k = "err" THEN Ok(CallToolCatch(step.err), step.used) ELSE step

\* ------------------------------------------------ list and prompt handlers

\* a list that leaves out the comment tool
ListToolsHandler_withoutComment ==
  <<"linear_create_issue", "linear_update_issue", "linear_search_issues",
    "linear_get_user_issues">>

\* the tools the ListToolsRequestSchema handler returns, by name
ListToolsHandler ==
  <<"linear_create_issue", "linear_update_issue", "linear_search_issues",
    "linear_get_user_issues", "linear_add_comment">>

\* the resource templates declared by the server, by uriTemplate
resourceTemplates ==
  <<"linear-issue://{issueId}", "linear-team://{teamId}", "linear-user://{userId}",
    "linear-search://{query}", "linear-priority://{level}">>

\* the value of the ListResourcesRequestSchema handler: the fixed resources, by
\* uri, and the templates
ListResourcesHandler ==
  [resources |-> <<"linear-viewer://", "linear-organization://", "linear-my-issues://",
                   "linear-my-backlog://", "linear-my-planned://",
                   "linear-my-in-progress://", "linear-my-under-review://",
                   "linear-my-high-priority://">>,
   resourceTemplates |-> resourceTemplates]

\* the value of the ListResourceTemplatesRequestSchema handler
ListResourceTemplatesHandler == [resourceTemplates |-> resourceTemplates]

\* the prompts declared by the server, by name
linearPrompts ==
  <<"create-issue", "bug-report", "sprint-planning", "work-status", "search-helper">>

\* the value of the ListPromptsRequestSchema handler
ListPromptsHandler == [prompts |-> linearPrompts]

\* a reading of the arguments that gives a placeholder for an omitted one
PromptArgument_placeholder(arguments, key) ==
  IF arguments = Undef \/ Get(arguments, key) = Undef THEN S("unspecified")
  ELSE Get(arguments, key)

\* request.params.arguments?.key
PromptArgument(arguments, key) ==
  IF arguments = Undef THEN Undef ELSE Get(arguments, key)

\* one message of a prompt
Message(role, text) == [role |-> role, content |-> [type |-> "text", text |-> text]]

\* `cond ? text : ""` inside a template literal
When(cond, text) == IF Truthy(cond) THEN text ELSE <<>>

\* the create-issue branch
CreateIssuePrompt(arguments) ==
  LET issueType == OrElse(PromptArgument(arguments, "issueType"), S("task"))
      component == OrElse(PromptArgument(arguments, "component"), Str(<<>>))
  IN  <<Message("user",
                <<"I need to create a new ">> \o Text(issueType) \o <<" in Linear">>
                \o When(component, <<" for the ">> \o Text(component) \o <<" component">>)
                \o <<".">>),
        Message("assistant",
                <<"I'll help you create a new ">> \o Text(issueType)
                \o When(component, <<" for ">> \o Text(component))
                \o <<". Let's gather the necessary details:\n\n1. What should be the title of this ">>
                \o Text(issueType)
                \o <<"?\n2. Please provide a description with all relevant details">>
                \o (IF issueType = S("bug") THEN <<", including reproduction steps">> ELSE <<>>)
                \o <<".\n3. Which team should this be assigned to?\n4. What priority level would you assign (urgent, high, normal, low)?\n5. Any specific status you want to set initially?">>)>>

\* the bug-report branch
BugReportPrompt(arguments) ==
  LET severity == OrElse(PromptArgument(arguments, "severity"), S("medium"))
      browser == OrElse(PromptArgument(arguments, "browser"), Str(<<>>))
      platform == OrElse(PromptArgument(arguments, "platform"), Str(<<>>))
  IN  <<Message("user",
                <<"I need to file a ">> \o Text(severity) \o <<" severity bug report">>
                \o When(browser, <<" affecting ">> \o Text(browser))
                \o When(platform, <<" on ">> \o Text(platform))
                \o <<".">>),
        Message("assistant",
                <<"I'll help you create a detailed bug report. Please provide the following information:\n\n1. Bug title: (Brief summary of the issue)\n2. Reproduction steps:\n   - Step 1:\n   - Step 2:\n   - ...\n3. Expected behavior:\n4. Actual behavior:\n5. Screenshots/videos: (if available)\n6. Additional context:">>
                \o When(browser, <<"\n7. Browser: ">> \o Text(browser))
                \o When(platform, <<"\n8. Platform: ">> \o Text(platform))
                \o <<"\n\nOnce you provide this information, I'll help you create a well-structured bug report in Linear with the appropriate priority level (">>
                \o Text(severity) \o <<").">>)>>

\* the sprint-planning branch; teamId has no default
SprintPlanningPrompt(arguments) ==
  LET teamId == PromptArgument(arguments, "teamId")
      sprintDuration == OrElse(PromptArgument(arguments, "sprintDuration"), S("2"))
      sprintGoals == OrElse(PromptArgument(arguments, "sprintGoals"), Str(<<>>))
  IN  <<Message("user",
                <<"I need help planning a ">> \o Text(sprintDuration)
                \o <<"-week sprint for team ">> \o Text(teamId)
                \o When(sprintGoals, <<" with these goals: ">> \o Text(sprintGoals))
                \o <<".">>),
        Message("assistant",
                <<"I'll help you plan your ">> \o Text(sprintDuration)
                \o <<"-week sprint for team ">> \o Text(teamId)
                \o <<". Let me gather some information about the current backlog and in-progress work.\n\nFirst, I'll need to:\n1. Check existing issues for team ">>
                \o Text(teamId)
                \o <<"\n2. Analyze current workload distribution\n3. Review any carried-over work from previous sprints\n\n">>
                \o When(sprintGoals,
                        <<"Based on your sprint goals (">> \o Text(sprintGoals) \o <<"), ">>)
                \o <<"Would you like me to:\n- Suggest issues to include in this sprint?\n- Help prioritize existing backlog items?\n- Analyze team capacity?\n- Create sprint planning meeting notes?">>)>>

\* the work-status branch
WorkStatusPrompt(arguments) ==
  LET timeframe == OrElse(PromptArgument(arguments, "timeframe"), S("week"))
      userId == OrElse(PromptArgument(arguments, "userId"), S("me"))
      format == OrElse(PromptArgument(arguments, "format"), S("summary"))
  IN  <<Message("user",
                <<"Generate a ">> \o Text(format) \o <<" work status report for ">>
                \o (IF userId = S("me") THEN <<"my">> ELSE Text(userId) \o <<"'s">>)
                \o <<" tasks over the past ">> \o Text(timeframe) \o <<".">>),
        Message("assistant",
                <<"I'll generate a ">> \o Text(format) \o <<" work status report for ">>
                \o (IF userId = S("me") THEN <<"your">> ELSE Text(userId) \o <<"'s">>)
                \o <<" tasks over the past ">> \o Text(timeframe)
                \o <<".\n\nI'll analyze:\n- Completed issues\n- In-progress work\n- Upcoming/planned tasks\n- Any blockers or dependencies\n\nWould you like me to include any specific information in this report, such as time estimates or specific projects?">>)>>

\* the search-helper branch
SearchHelperPrompt(arguments) ==
  LET keywords == OrElse(PromptArgument(arguments, "keywords"), Str(<<>>))
      status == OrElse(PromptArgument(arguments, "status"), Str(<<>>))
      assignee == OrElse(PromptArgument(arguments, "assignee"), Str(<<>>))
      priority == OrElse(PromptArgument(arguments, "priority"), Str(<<>>))
      searchQuery ==
        <<"I need to find issues">>
        \o When(keywords, <<" containing \"">> \o Text(keywords) \o <<"\"">>)
        \o When(status, <<" with status \"">> \o Text(status) \o <<"\"">>)
        \o When(assignee, <<" assigned to ">>
                          \o (IF assignee = S("me") THEN <<"me">> ELSE Text(assignee)))
        \o When(priority, <<" with ">> \o Text(priority) \o <<" priority">>)
  IN  <<Message("user", searchQuery),
        Message("assistant",
                <<"I'll help you search for issues in Linear with these criteria:\n">>
                \o When(keywords, <<"- Keywords: \"">> \o Text(keywords) \o <<"\"\n">>)
                \o When(status, <<"- Status: \"">> \o Text(status) \o <<"\"\n">>)
                \o When(assignee, <<"- Assignee: ">>
                                  \o (IF assignee = S("me") THEN <<"You">> ELSE Text(assignee))
                                  \o <<"\n">>)
                \o When(priority, <<"- Priority: ">> \o Text(priority) \o <<"\n">>)
                \o <<"\n\nWould you like to:\n1. Add any other search filters?\n2. Sort results in a specific way?\n3. Limit the number of results?\n4. Include archived issues?">>)>>

\* the GetPromptRequestSchema handler; it makes no remote call
GetPromptHandler(name, arguments) ==
  IF name = "create-issue" THEN Ok([messages |-> CreateIssuePrompt(arguments)], 0)
  ELSE IF name = "bug-report" THEN Ok([messages |-> BugReportPrompt(arguments)], 0)
  ELSE IF name = "sprint-planning" THEN Ok([messages |-> SprintPlanningPrompt(arguments)], 0)
  ELSE IF name = "work-status" THEN Ok([messages |-> WorkStatusPrompt(arguments)], 0)
  ELSE IF name = "search-helper" THEN Ok([messages |-> SearchHelperPrompt(arguments)], 0)
  ELSE Err(JsError(<<"Prompt not found: ", name>>), 0)

\* ------------------------------------------------------------- the tracker

\* The tracker is the remote collaborator: what follows is its contract as the
\* adapter relies on it, not code of the server.

UserObject(id) == [id |-> Str(<<id>>), name |-> Str(<<"name of ", id>>)]
TeamObject == [id |-> S("team-1"), name |-> S("Engineering")]
OrganizationObject == [id |-> S("org-1"), name |-> S("Acme")]
CommentObject(issueId) ==
  [id |-> S("comment-1"), url |-> S("https://linear.app/comment/1"), issue |-> issueId]

\* the values the tracker may answer one call with, when it does not fail
CallAnswers(c, store) ==
  CASE c.op = "viewer" -> {UserObject(u) : u \in Users} \cup {Undef}
    [] c.op = "user" ->
         IF \E u \in Users : c.id = Str(<<u>>)
         THEN {UserObject(u) : u \in {u \in Users : c.id = Str(<<u>>)}}
         ELSE {Undef}
    [] c.op = "user.teams" -> {[nodes |-> <<TeamObject>>]}
    [] c.op = "organization" -> {OrganizationObject}
    [] c.op = "organization.teams" -> {[nodes |-> <<TeamObject>>]}
    [] c.op = "organization.users" -> {[nodes |-> <<UserObject("user-1")>>]}
    [] c.op = "issues" ->
         IF ValidPageSize(c.first)
         THEN {[nodes |-> Page(l, c.first)] : l \in ResultLists}
         ELSE {}
    [] c.op = "user.assignedIssues" ->
         IF ValidPageSize(c.first)
         THEN {[nodes |-> Page(l, c.first)] : l \in ResultLists} \cup {Undef}
         ELSE {}
    [] c.op = "team" -> IF c.id = TeamObject.id THEN {TeamObject} ELSE {Undef}
    [] c.op = "team.issues" ->
         {[nodes |-> Page(l, Num(DefaultUserIssuesLimit))] : l \in ResultLists}
    [] c.op = "issue" ->
         IF Lookup(store, c.id) > 0 THEN {StoredIssue(store, Lookup(store, c.id))}
         ELSE {Undef}
    [] c.op = "issue.state" ->
         IF "node" \in DOMAIN c THEN {NodeState(c.node)} ELSE {[name |-> S("Backlog")]}
    [] c.op = "issue.assignee" ->
         IF "node" \in DOMAIN c THEN {NodeAssignee(c.node)} ELSE {Undef}
    [] c.op = "issue.team" ->
         IF "node" \in DOMAIN c THEN {NodeTeam(c.node)} ELSE {TeamObject}
    [] c.op = "issue.labels" -> {NodeLabels(c.node)}
    [] c.op = "createIssue" ->
         {[issue |-> Undef]} \cup
         (IF Len(store) < MaxIssues THEN {[issue |-> Str(IssueId(Len(store) + 1))]} ELSE {})
    [] c.op = "issue.update" ->
         {[issue |-> Undef]} \cup
         (IF Lookup(store, c.id) > 0 THEN {[issue |-> c.id]} ELSE {})
    [] c.op = "createComment" ->
         {[comment |-> Undef]} \cup
         (IF Lookup(store, c.input.issueId) > 0
          THEN {[comment |-> CommentObject(c.input.issueId)]} ELSE {})
    [] c.op = "comment" -> {c.ref, [c.ref EXCEPT !.issue = Undef]}

\* the tracker's issues after it answered call c with value v
StoreAfter(c, v, store) ==
  IF c.op = "createIssue" /\ v.issue # Undef
  THEN Append(store, [title |-> c.input.title, updated |-> FALSE])
  ELSE IF c.op = "issue.update" /\ v.issue # Undef
  THEN LET k == Lookup(store, c.id) IN
         [store EXCEPT ![k].title = IF c.input.title = Undef THEN @ ELSE c.input.title,
                       ![k].updated = TRUE]
  ELSE store

\* The tracker's possible answers to a batch of calls issued together, each with
\* the tracker's issues after it.  Calls issued together are reads with one
\* possible value each; any batch may fail.
TrackerAnswers(batch, store) ==
  {[res |-> [ok |-> FALSE, err |-> e], store |-> store] : e \in RemoteErrors}
  \cup
  (IF Len(batch) = 1
   THEN {[res |-> [ok |-> TRUE, val |-> <<v>>], store |-> StoreAfter(batch[1], v, store)] :
           v \in CallAnswers(batch[1], store)}
   ELSE {[res |-> [ok |-> TRUE,
                   val |-> [i \in 1..Len(batch) |->
                              CHOOSE v \in CallAnswers(batch[i], store) : TRUE]],
           store |-> store]})

\* ---------------------------------------------------------------- inputs

\* the schemes the read-resource handler has a branch for
ParameterlessSchemes ==
  {"linear-organization", "linear-viewer", "linear-my-issues", "linear-my-backlog",
   "linear-my-planned", "linear-my-in-progress", "linear-my-under-review",
   "linear-my-high-priority", "linear-recent-issues"}
TemplatedSchemes ==
  {"linear-issue", "linear-team", "linear-user", "linear-search", "linear-priority"}
\* schemes it has no branch for
OtherSchemes == {"http", "LINEAR-ISSUE"}

\* what follows :// in the URIs read
Paths ==
  {<<>>, <<"urgent">>, <<"high">>, <<"medium">>, <<"low">>, <<"none">>, <<"URGENT">>,
   <<"bogus">>, <<"constructor">>, <<"me">>, <<"user-2">>, <<"team-1">>,
   IssueId(1), IssueId(1) \o <<Newline, "x">>, <<"a", Colon, Slash, Slash, "b">>}

\* the URIs read
UriInputs ==
  {Scheme(s) \o p : s \in TemplatedSchemes \cup OtherSchemes, p \in Paths}
  \cup {Scheme(s) \o p : s \in ParameterlessSchemes, p \in {<<>>, <<"x">>}}
  \cup {<<>>, <<"linear-viewer">>, <<"linear-viewer", Colon>>,
        <<"linear-viewer", Colon, Slash, "x">>, <<Colon, Slash, Slash, "x">>,
        <<"mailto", Colon, "x", Colon, Slash, Slash>>,
        <<"linear-viewer", Newline, Colon, Slash, Slash>>}

\* the argument objects of linear_create_issue
CreateIssueInputs ==
  [title : {Undef, S("T"), Num(7)},
   teamId : {Undef, S("X")},
   description : {Undef, S("D")},
   priority : {Undef, Num(0), Num(2), Num(5), NumHalves(5), S("high")},
   status : {Undef, S("state-1")}]

\* the argument objects of linear_update_issue
UpdateIssueInputs ==
  [id : {Undef, Str(IssueId(1)), S("nope")},
   title : {Undef, S("U"), Num(7)},
   description : {Undef},
   priority : {Undef, Num(9)},
   status : {Undef}]

\* the values a property of linear_search_issues' arguments is given
SearchValues ==
  [query |-> {S("q"), Str(<<>>)},
   identifier |-> {S("ENG-1")},
   teamId |-> {S("team-1")},
   status |-> {S("Backlog")},
   assigneeId |-> {S("user-1")},
   labels |-> {List(<<>>), List(<<S("bug")>>), List(<<Num(1), S("bug"), Null>>), S("bug")},
   priority |-> {Num(0), Num(1), S("high")},
   estimate |-> {Num(0), Num(3)},
   includeArchived |-> {Bool(TRUE)},
   limit |-> {Num(0), Num(1)}]

\* The argument objects of linear_search_issues: the empty object, and every
\* object giving one or two of the properties.
SearchIssuesInputs ==
  LET none == [k \in DOMAIN SearchValues |-> Undef] IN
    {none}
    \cup UNION {{[none EXCEPT ![k] = v] : v \in SearchValues[k]} : k \in DOMAIN SearchValues}
    \cup UNION {UNION {{[none EXCEPT ![k1] = v1, ![k2] = v2] :
                          v1 \in SearchValues[k1], v2 \in SearchValues[k2]} :
                        k2 \in DOMAIN SearchValues \ {k1}} :
                 k1 \in DOMAIN SearchValues}

\* the argument objects of linear_get_user_issues
GetUserIssuesInputs ==
  [userId : {Undef, S("user-2"), S("nobody"), Str(<<>>), Num(3)},
   includeArchived : {Undef},
   limit : {Undef, Num(0), Num(1)}]

\* the argument objects of linear_add_comment
AddCommentInputs ==
  [issueId : {Undef, Str(IssueId(1)), S("nope")},
   body : {Undef, S("hello")},
   createAsUser : {Undef},
   displayIconUrl : {Undef}]

\* the tools list-tools names
ToolNames ==
  {"linear_create_issue", "linear_update_issue", "linear_search_issues",
   "linear_get_user_issues", "linear_add_comment"}

\* the argument objects sent to tool `name`
ToolInputs(name) ==
  CASE name = "linear_create_issue" -> CreateIssueInputs
    [] name = "linear_update_issue" -> UpdateIssueInputs
    [] name = "linear_search_issues" -> SearchIssuesInputs
    [] name = "linear_get_user_issues" -> GetUserIssuesInputs
    [] name = "linear_add_comment" -> AddCommentInputs
    [] OTHER -> {[id |-> S("x")]}

\* the prompt names requested: the five declared ones and one that is not
PromptNames ==
  {"create-issue", "bug-report", "sprint-planning", "work-status", "search-helper",
   "no-such-prompt"}

\* the argument objects of prompts/get; absent, or an object giving some arguments
PromptArguments ==
  {Undef,
   [issueType |-> Undef],
   [issueType |-> S("bug"), component |-> S("api")],
   [severity |-> S("high"), browser |-> S("Firefox"), platform |-> Str(<<>>)],
   [teamId |-> S("team-1"), sprintGoals |-> S("ship")],
   [userId |-> S("user-2"), format |-> S("detailed")],
   [keywords |-> S("crash"), assignee |-> S("me")]}

\* ----------------------------------------------------------- the server

VARIABLES
  apiKey,   \* process.env.LINEAR_API_KEY
  process,  \* Running, or Exited(code)
  server,   \* the methods with a registered handler, and whether the transport is connected
  req,      \* the request being handled, or NoRequest
  calls,    \* the batches of remote calls the handler has issued, in order
  answers,  \* the tracker's answers to them, in order
  resp,     \* the response sent for req, or NoResponse
  store,    \* the tracker's created issues
  created,  \* for each created issue, the title the host asked for
  linearClient,  \* the client handle main creates, or Undef
  second    \* the invocation handling a request that arrived while req is in flight

vars ==
  <<apiKey, process, server, req, calls, answers, resp, store, created, linearClient,
    second>>

Running == [exited |-> FALSE]
\* process.exit(code)
Exited(code) == [exited |-> TRUE, code |-> code]

\* the values the environment may give the credential
ApiKeys == {Undef, Str(<<>>), S("lin_api_key")}

\* the methods main registers a handler for
Methods ==
  {"resources/list", "resources/read", "tools/list", "resources/templates/list",
   "prompts/list", "prompts/get", "tools/call"}

NoRequest == [method |-> "none"]
NoResponse == [kind |-> "none"]

\* new LinearMCPClient(apiKey): the handle holds the tracker client made from
\* the credential, its only field
LinearMCPClient(key) == [client |-> [apiKey |-> key]]

\* a handler invocation: the request, the remote calls it has issued, the
\* answers it has received and the response it has returned
NoInvocation ==
  [req |-> NoRequest, calls |-> <<>>, answers |-> <<>>, resp |-> NoResponse]

ReadRequest(uri) == [method |-> "resources/read", uri |-> uri]
ToolRequest(name, args) == [method |-> "tools/call", name |-> name, args |-> args]
ListRequest(method) == [method |-> method]
PromptRequest(name, arguments) ==
  [method |-> "prompts/get", name |-> name, arguments |-> arguments]

\* the handler registered for r's method, run on the answers rs
Handler(r, rs) ==
  CASE r.method = "resources/read" -> ReadResourceHandler(r.uri, rs)
    [] r.method = "tools/call" -> CallToolHandler(r.name, r.args, rs)
    [] r.method = "tools/list" -> Ok([tools |-> ListToolsHandler], 0)
    [] r.method = "resources/list" -> Ok(ListResourcesHandler, 0)
    [] r.method = "resources/templates/list" -> Ok(ListResourceTemplatesHandler, 0)
    [] r.method = "prompts/list" -> Ok(ListPromptsHandler, 0)
    [] r.method = "prompts/get" -> GetPromptHandler(r.name, r.arguments)

\* What the protocol layer sends for a finished handler: its return value as
\* the result, or the thrown error's message as a protocol error.
Response(step) ==
  IF step.k = "ok" THEN [kind |-> "result", result |-> step.val]
  ELSE [kind |-> "error", message |-> step.err.msg]

Init ==
  /\ apiKey \in ApiKeys
  /\ process = Running
  /\ server = [handlers |-> {}, connected |-> FALSE]
  /\ req = NoRequest
  /\ calls = <<>>
  /\ answers = <<>>
  /\ resp = NoResponse
  /\ store = <<>>
  /\ created = <<>>
  /\ linearClient = Undef
  /\ second = NoInvocation

\* a test that takes only an absent credential for missing
CredentialMissing_absentOnly(key) == key = Undef

\* if (!apiKey)
CredentialMissing(key) == ~Truthy(key)

\* main up to the connection of the transport: without a credential the
\* process exits with status 1; with one, the client and the server are
\* created and the handlers registered
Main ==
  /\ process = Running
  /\ server.handlers = {}
  /\ IF CredentialMissing(apiKey)
     THEN process' = Exited(1) /\ UNCHANGED <<server, linearClient>>
     ELSE /\ linearClient' = LinearMCPClient(apiKey)
          /\ server' = [server EXCEPT !.handlers = Methods]
          /\ UNCHANGED process
  /\ UNCHANGED <<apiKey, req, calls, answers, resp, store, created, second>>

\* await server.connect(transport): it resolves, or it rejects and the catch
\* block of main exits with status 1
Connect ==
  /\ process = Running
  /\ server.handlers # {}
  /\ ~server.connected
  /\ \E connects \in BOOLEAN :
       IF connects
       THEN server' = [server EXCEPT !.connected = TRUE] /\ UNCHANGED process
       ELSE process' = Exited(1) /\ UNCHANGED server
  /\ UNCHANGED <<apiKey, req, calls, answers, resp, store, created, linearClient, second>>

\* the server is connected and holds no request: before the first, and after
\* each response is delivered
Idle == process = Running /\ server.connected /\ req = NoRequest

\* request r arrives and its handler runs to its first await, or to its end
Accept(r) ==
  LET step == Handler(r, <<>>) IN
    /\ Idle
    /\ r.method \in server.handlers
    /\ req' = r
    /\ answers' = <<>>
    /\ calls' = IF step.k = "call" THEN <<step.batch>> ELSE <<>>
    /\ resp' = IF step.k = "call" THEN NoResponse ELSE Response(step)
    /\ UNCHANGED <<apiKey, process, server, store, created, linearClient, second>>

\* a resources/read request
ReadResourceRequest == \E uri \in UriInputs : Accept(ReadRequest(uri))

\* a tools/call request, with or without an arguments object
CallToolRequest ==
  \E name \in ToolNames \cup {"linear_delete_issue"} :
    \E args \in ToolInputs(name) \cup {Undef} : Accept(ToolRequest(name, args))

\* a tools/list, resources/list, resources/templates/list or prompts/list request
ListRequests ==
  \E method \in {"tools/list", "resources/list", "resources/templates/list",
                 "prompts/list"} : Accept(ListRequest(method))

\* a prompts/get request
GetPromptRequest ==
  \E name \in PromptNames : \E arguments \in PromptArguments :
    Accept(PromptRequest(name, arguments))

\* A rejection without a handler can occur while the handler awaits, in turn,
\* promises that were created together: one of them rejects while an earlier
\* one is awaited, or after the await of an earlier one threw.  It shows as
\* the batch failing with a second rejection that nobody awaits.
UnhandledRejectionPossible(pending, res) ==
  pending.inTurn /\ Len(pending.batch) > 1 /\ ~res.ok

\* The tracker answers the pending batch and the handler runs to its next
\* await, or to its end.  main registers no unhandledRejection listener: when
\* a rejection is left without a handler the runtime either ends the process
\* with status 1 or only warns, according to its unhandled-rejections mode.
TrackerAnswer ==
  /\ process = Running
  /\ req # NoRequest
  /\ resp = NoResponse
  /\ \E a \in TrackerAnswers(calls[Len(calls)], store) :
       LET rs == Append(answers, a.res)
           step == Handler(req, rs)
           pending == Handler(req, answers)
       IN  /\ answers' = rs
           /\ store' = a.store
           /\ created' = IF Len(a.store) > Len(store)
                          THEN Append(created, Get(req.args, "title")) ELSE created
           /\ \E fatal \in IF UnhandledRejectionPossible(pending, a.res)
                           THEN BOOLEAN ELSE {FALSE} :
                IF fatal
                THEN process' = Exited(1) /\ UNCHANGED <<calls, resp>>
                ELSE /\ calls' = IF step.k = "call" THEN Append(calls, step.batch) ELSE calls
                     /\ resp' = IF step.k = "call" THEN NoResponse ELSE Response(step)
                     /\ UNCHANGED process
           /\ UNCHANGED <<apiKey, server, req, linearClient, second>>

\* the response is delivered to the host; nothing of the request is retained
Deliver ==
  /\ process = Running
  /\ req # NoRequest
  /\ resp # NoResponse
  /\ req' = NoRequest
  /\ calls' = <<>>
  /\ answers' = <<>>
  /\ resp' = NoResponse
  /\ UNCHANGED <<apiKey, process, server, store, created, linearClient, second>>

Next ==
  \/ Main
  \/ Connect
  \/ ReadResourceRequest
  \/ CallToolRequest
  \/ ListRequests
  \/ GetPromptRequest
  \/ TrackerAnswer
  \/ Deliver

Spec == Init /\ [][Next]_vars

\* ------------------------------------------------------ pipelined requests

\* The protocol layer starts the handler of each request as the request
\* arrives and does not wait for the handlers of earlier requests: each call
\* of a registered handler is an invocation with its own parameters and
\* locals, which run between awaits one at a time.

\* the invocation of the handler for request r, run to its first await or to its end
Invoked(r) ==
  LET step == Handler(r, <<>>) IN
    [req |-> r,
     calls |-> IF step.k = "call" THEN <<step.batch>> ELSE <<>>,
     answers |-> <<>>,
     resp |-> IF step.k = "call" THEN NoResponse ELSE Response(step)]

\* an invocation that continues from the answer another invocation holds for
\* the same remote calls, when there is one
Resumed_shared(inv, res) ==
  LET n == Len(inv.answers) + 1
      held == IF n <= Len(answers) /\ calls[n] = inv.calls[n] THEN answers[n] ELSE res
      step == Handler(inv.req, Append(inv.answers, held))
  IN  [inv EXCEPT !.answers = Append(inv.answers, res),
                  !.calls = IF step.k = "call" THEN Append(@, step.batch) ELSE @,
                  !.resp = IF step.k = "call" THEN NoResponse ELSE Response(step)]

\* invocation inv after its pending batch was answered with res: it continues
\* from its own locals to its next await, or to its end
Resumed(inv, res) ==
  LET rs == Append(inv.answers, res)
      step == Handler(inv.req, rs)
  IN  [inv EXCEPT !.answers = rs,
                  !.calls = IF step.k = "call" THEN Append(@, step.batch) ELSE @,
                  !.resp = IF step.k = "call" THEN NoResponse ELSE Response(step)]

\* the requests a host pipelines: two mutations, two reads, a prompt and a list
PipelinedRequests ==
  {ToolRequest("linear_create_issue",
               [title |-> S("T"), teamId |-> S("X"), description |-> Undef,
                priority |-> Undef, status |-> Undef]),
   ToolRequest("linear_update_issue",
               [id |-> Str(IssueId(1)), title |-> S("U"), description |-> Undef,
                priority |-> Undef, status |-> Undef]),
   ReadRequest(Scheme("linear-issue") \o IssueId(1)),
   ReadRequest(Scheme("linear-viewer")),
   PromptRequest("create-issue", Undef),
   ListRequest("tools/list")}

\* a request arrives while no other is in flight
PipelinedFirst == \E r \in PipelinedRequests : Accept(r)

\* a request arrives while another is in flight
PipelinedSecond ==
  /\ process = Running
  /\ server.connected
  /\ req # NoRequest
  /\ second = NoInvocation
  /\ \E r \in PipelinedRequests :
       /\ r.method \in server.handlers
       /\ second' = Invoked(r)
  /\ UNCHANGED <<apiKey, process, server, req, calls, answers, resp, store, created,
                 linearClient>>

\* the tracker answers the pending batch of the second invocation
AnswerSecond ==
  /\ process = Running
  /\ second # NoInvocation
  /\ second.resp = NoResponse
  /\ \E a \in TrackerAnswers(second.calls[Len(second.calls)], store) :
       LET pending == Handler(second.req, second.answers) IN
           /\ store' = a.store
           /\ created' = IF Len(a.store) > Len(store)
                          THEN Append(created, Get(second.req.args, "title")) ELSE created
           /\ \E fatal \in IF UnhandledRejectionPossible(pending, a.res)
                           THEN BOOLEAN ELSE {FALSE} :
                IF fatal
                THEN /\ process' = Exited(1)
                     /\ second' = [second EXCEPT !.answers = Append(@, a.res)]
                ELSE /\ second' = Resumed(second, a.res)
                     /\ UNCHANGED process
  /\ UNCHANGED <<apiKey, server, req, calls, answers, resp, linearClient>>

\* the response of the second invocation is delivered to the host
DeliverSecond ==
  /\ process = Running
  /\ second # NoInvocation
  /\ second.resp # NoResponse
  /\ second' = NoInvocation
  /\ UNCHANGED <<apiKey, process, server, req, calls, answers, resp, store, created,
                 linearClient>>

NextPipelined ==
  \/ Main
  \/ Connect
  \/ PipelinedFirst
  \/ TrackerAnswer
  \/ Deliver
  \/ PipelinedSecond
  \/ AnswerSecond
  \/ DeliverSecond

SpecPipelined == Init /\ [][NextPipelined]_vars

\* ------------------------------------------------------------ properties

\* the remote calls issued for the request being handled, in order
FlatCalls == Flatten(calls)

IsSearch(c) == c.op = "issues"
\* the searches among them
Searches == SelectSeq(FlatCalls, IsSearch)

\* the positions in calls of the searches
SearchBatches == {i \in 1..Len(calls) : calls[i][1].op = "issues"}

Reading == req.method = "resources/read"
Calling == req.method = "tools/call"

\* the part of a URI before its first colon; empty when it has no colon
SchemePart(uri) ==
  IF Positions(uri, Colon) = {} THEN <<>>
  ELSE SubSeq(uri, 1, Least(Positions(uri, Colon)) - 1)

\* the URI has the form scheme://rest, with a non-empty scheme
WellFormed(uri) ==
  \E i \in 2..(Len(uri) - 2) :
    /\ uri[i] = Colon /\ uri[i + 1] = Slash /\ uri[i + 2] = Slash
    /\ \A j \in 1..(i - 1) : uri[j] # Colon

\* the resource SCHEME:// is being read
ReadingScheme(scheme) ==
  Reading /\ WellFormed(req.uri) /\ SchemePart(req.uri) = <<scheme>>

\* the schemes the handler has a branch for
RecognizedSchemes == ParameterlessSchemes \cup TemplatedSchemes

HasRecognizedScheme(uri) == \E s \in RecognizedSchemes : SchemePart(uri) = <<s>>

\* id is the id of the viewer as resolved for the request being handled
ViewerResolvedAs(id) ==
  \E j \in 1..Len(answers) :
    /\ calls[j][1].op = "viewer"
    /\ answers[j].ok
    /\ answers[j].val[1].id = id

\* the levels the priority resource names, and their numbers
NamedLevels == {<<"urgent">>, <<"high">>, <<"medium">>, <<"low">>, <<"none">>}
LevelNumber(level) ==
  CASE level = <<"urgent">> -> 1
    [] level = <<"high">> -> 2
    [] level = <<"medium">> -> 3
    [] level = <<"low">> -> 4
    [] level = <<"none">> -> 0

\* the other levels read: one line, and no named level in another letter case
OtherLevels ==
  {p \in Paths : /\ p # <<>>
                 /\ Newline \notin {p[i] : i \in 1..Len(p)}
                 /\ toLowerCase(p) \notin NamedLevels}

\* C1 (as claimed): reading linear-priority://{level} issues a search whose
\* filter has the priority clause 1, 2, 3, 4, 0 for urgent, high, medium, low,
\* none; for any other non-empty level the read fails with an error whose
\* message contains the level, and no search is issued.
C1_PriorityLevelFilter ==
  \A level \in NamedLevels \cup OtherLevels :
    (Reading /\ req.uri = Scheme("linear-priority") \o level) =>
      IF level \in NamedLevels
      THEN /\ Searches # <<>>
           /\ \A i \in 1..Len(Searches) :
                Clause("priority", "eq", Num(LevelNumber(level))) \in Searches[i].filter
      ELSE /\ Searches = <<>>
           /\ resp.kind = "error"
           /\ Contains(resp.message, level)

\* C2 (as claimed): reading a URI whose scheme is not a recognized one fails
\* with the unsupported-resource error, and no remote call is made.
C2_UnsupportedForEveryUnrecognized ==
  (Reading /\ ~HasRecognizedScheme(req.uri)) =>
    /\ calls = <<>>
    /\ resp.kind = "error"
    /\ Contains(resp.message, <<"Unsupported resource URI: ">>)

\* C2 (amended): reading a URI whose scheme is not a recognized one fails and
\* no remote call is made; the error is the unsupported-resource error naming
\* the URI when the URI has the form scheme://rest, and the invalid-URI-format
\* error naming the URI when it has not.
C2_UnrecognizedSchemeFails ==
  (Reading /\ ~HasRecognizedScheme(req.uri)) =>
    /\ calls = <<>>
    /\ resp.kind = "error"
    /\ resp.message =
         (IF WellFormed(req.uri) THEN <<"Unsupported resource URI: ">>
          ELSE <<"Invalid URI format: ">>) \o req.uri

\* a URI of an unrecognized scheme was read and refused as unsupported
C2_Witness ==
  /\ Reading
  /\ req.uri = Scheme("http") \o <<"bogus">>
  /\ resp.kind = "error"
  /\ calls = <<>>

\* the status name each status resource filters on
StatusName ==
  [s \in {"linear-my-backlog", "linear-my-planned", "linear-my-in-progress",
          "linear-my-under-review"} |->
     CASE s = "linear-my-backlog" -> "Backlog"
       [] s = "linear-my-planned" -> "Planned this Cycle"
       [] s = "linear-my-in-progress" -> "In Progress"
       [] s = "linear-my-under-review" -> "Under Review"]

\* the filter {assignee id = id, state name = name}
AssigneeAndState(id, name) ==
  {Clause("assignee", "id.eq", id), Clause("state", "name.eq", S(name))}

\* C3 (as claimed): each of the five my-* resources other than
\* linear-my-high-priority, read successfully, has issued a search filtering on
\* the viewer as assignee (and, for the four with a status name, on exactly
\* that assignee and that state name).
C3_FiveStatusSearches ==
  \A s \in DOMAIN StatusName \cup {"linear-my-issues"} :
    (ReadingScheme(s) /\ resp.kind = "result") =>
      /\ Searches # <<>>
      /\ \A i \in 1..Len(Searches) :
           \E u \in Users :
             /\ ViewerResolvedAs(Str(<<u>>))
             /\ Clause("assignee", "id.eq", Str(<<u>>)) \in Searches[i].filter
             /\ s \in DOMAIN StatusName =>
                  Searches[i].filter = AssigneeAndState(Str(<<u>>), StatusName[s])

\* C3 (amended): reading linear-my-backlog, -planned, -in-progress or
\* -under-review issues at most one search, exactly one when the read succeeds,
\* whose filter is exactly {assignee id = the viewer's id resolved in the same
\* request, state name = Backlog, Planned this Cycle, In Progress, Under Review
\* respectively}.  Reading linear-my-issues issues no search: it asks for the
\* assigned issues of the viewer resolved in the same request.
C3_MyStatusFilters ==
  /\ \A s \in DOMAIN StatusName :
       ReadingScheme(s) =>
         /\ Len(Searches) <= 1
         /\ resp.kind = "result" => Len(Searches) = 1
         /\ \A i \in 1..Len(Searches) :
              \E u \in Users :
                /\ ViewerResolvedAs(Str(<<u>>))
                /\ Searches[i].filter = AssigneeAndState(Str(<<u>>), StatusName[s])
  /\ ReadingScheme("linear-my-issues") =>
       /\ Searches = <<>>
       /\ resp.kind = "result" =>
            \E i \in 1..Len(FlatCalls) : \E u \in Users :
              /\ FlatCalls[i].op = "user.assignedIssues"
              /\ FlatCalls[i].user = Str(<<u>>)
              /\ ViewerResolvedAs(Str(<<u>>))

\* linear-my-planned was read successfully for viewer user-2, with results
C3_Witness ==
  /\ ReadingScheme("linear-my-planned")
  /\ resp.kind = "result"
  /\ ViewerResolvedAs(S("user-2"))
  /\ Len(resp.result.text) > 0

\* the nodes the tracker answered the i-th search of the request with
SearchResult(i) ==
  LET at == CHOOSE b \in SearchBatches : Cardinality({x \in SearchBatches : x <= b}) = i
  IN  answers[at].val[1].nodes

\* C4: reading linear-my-high-priority issues the search {assignee = viewer,
\* priority = 1} and then the search {assignee = viewer, priority = 2}, and
\* returns the results of the first followed by the results of the second, in
\* the tracker's order and with nothing removed.
C4_HighPriorityConcatenation ==
  ReadingScheme("linear-my-high-priority") =>
    /\ Len(Searches) <= 2
    /\ \A i \in 1..Len(Searches) :
         \E u \in Users :
           /\ ViewerResolvedAs(Str(<<u>>))
           /\ Searches[i].filter =
                {Clause("assignee", "id.eq", Str(<<u>>)), Clause("priority", "eq", Num(i))}
    /\ resp.kind = "result" =>
         /\ Len(Searches) = 2
         /\ LET all == SearchResult(1) \o SearchResult(2)
                text == resp.result.text
            IN  /\ Len(text) = Len(all)
                /\ \A i \in 1..Len(all) : text[i].id = NodeIssue(all[i]).id

\* linear-my-high-priority was read with an issue in both results, the second
\* result in another order than the first
C4_Witness ==
  /\ ReadingScheme("linear-my-high-priority")
  /\ resp.kind = "result"
  /\ SearchResult(1) = <<1, 2>>
  /\ SearchResult(2) = <<2, 1>>

\* the response carries neither the error flag nor an error object
Unflagged(result) == "metadata" \notin DOMAIN result /\ "error" \notin DOMAIN result

\* the response carries the error flag, in metadata.error
Flagged(result) == "metadata" \in DOMAIN result /\ result.metadata.error = TRUE

\* every remote call of the request so far has succeeded
AllAnswersOk == \A i \in 1..Len(answers) : answers[i].ok

\* linear_search_issues is being called with an object that gives no field
EmptySearchCall ==
  /\ Calling
  /\ req.name = "linear_search_issues"
  /\ req.args # Undef
  /\ \A k \in DOMAIN req.args : req.args[k] = Undef

\* C5: searchIssues with no filter fields sends an empty filter and a page
\* size of 10 and, when the remote calls succeed, yields a response without
\* error that reports at most 10 issues.
C5_EmptySearch ==
  EmptySearchCall =>
    /\ Len(Searches) = 1
    /\ Searches[1].filter = {}
    /\ Searches[1].first = Num(10)
    /\ (resp # NoResponse /\ AllAnswersOk) =>
         /\ resp.kind = "result"
         /\ Unflagged(resp.result)
         /\ Len(SearchResult(1)) <= 10
         /\ SubSeq(resp.result.content[1].text, 1, 2) =
              <<"Found ", ToString(Len(SearchResult(1)))>>

\* the empty search was answered from a longer list, and reported 10 issues
C5_Witness ==
  /\ EmptySearchCall
  /\ resp.kind = "result"
  /\ Unflagged(resp.result)
  /\ Len(SearchResult(1)) = 10

IsCreate(c) == c.op = "createIssue"
\* the create calls issued for the request being handled
CreateCalls == SelectSeq(FlatCalls, IsCreate)

\* linear_create_issue is being called with a title and a team id only
MinimalCreate ==
  /\ Calling
  /\ req.name = "linear_create_issue"
  /\ req.args # Undef
  /\ req.args.title.t = "string"
  /\ req.args.teamId.t = "string"
  /\ req.args.description = Undef
  /\ req.args.priority = Undef
  /\ req.args.status = Undef

\* the tracker answered the create call with a created issue and then the
\* fetch of that issue
CreatedIssueReturned ==
  /\ Len(answers) = 2
  /\ answers[1].ok /\ answers[1].val[1].issue # Undef
  /\ answers[2].ok /\ answers[2].val[1] # Undef

\* C6: linear_create_issue with only title and teamId issues exactly one
\* create call, which carries that title and team id and no value for
\* description, priority or state; when the tracker returns the created
\* issue, the text of the response contains its identifier and its url.
C6_MinimalCreate ==
  MinimalCreate =>
    /\ Len(CreateCalls) = 1
    /\ CreateCalls[1].input.title = req.args.title
    /\ CreateCalls[1].input.teamId = req.args.teamId
    /\ CreateCalls[1].input.description = Undef
    /\ CreateCalls[1].input.priority = Undef
    /\ CreateCalls[1].input.stateId = Undef
    /\ CreatedIssueReturned =>
         /\ resp.kind = "result"
         /\ Unflagged(resp.result)
         /\ Contains(resp.result.content[1].text, answers[2].val[1].identifier.s)
         /\ Contains(resp.result.content[1].text, answers[2].val[1].url.s)

\* a minimal create call was answered with the created issue
C6_Witness == MinimalCreate /\ CreatedIssueReturned /\ resp.kind = "result"

\* getUserIssues is running without a user id: through the tool, or through
\* the resources linear-my-issues and linear-user://me
ViewerIssuesRequest ==
  \/ /\ Calling
     /\ req.name = "linear_get_user_issues"
     /\ req.args # Undef
     /\ req.args.userId = Undef
     /\ req.args.limit.t \in {"undefined", "number"}
  \/ ReadingScheme("linear-my-issues")
  \/ Reading /\ req.uri = Scheme("linear-user") \o <<"me">>

\* the request gives getUserIssues no limit
NoLimitGiven == Reading \/ req.args.limit = Undef

\* resolving the viewer failed, or yielded no user
ViewerUnresolved ==
  /\ Len(answers) >= 1
  /\ ~answers[1].ok \/ answers[1].val[1] = Undef

\* C7: getUserIssues without a user id resolves the viewer and asks for that
\* viewer's assigned issues, with a page size of 50 when no limit is given; if
\* resolving the viewer fails or yields no user, the request ends in an error
\* and not in an empty list.
C7_ViewerIssues ==
  ViewerIssuesRequest =>
    /\ calls # <<>>
    /\ calls[1] = <<[op |-> "viewer"]>>
    /\ Len(calls) >= 2 =>
         /\ answers[1].ok
         /\ calls[2][1].op = "user.assignedIssues"
         /\ calls[2][1].user = answers[1].val[1].id
         /\ NoLimitGiven => calls[2][1].first = Num(50)
    /\ ViewerUnresolved =>
         /\ Len(calls) = 1
         /\ IF Reading
            THEN /\ resp.kind = "error"
                 /\ ~answers[1].ok => resp.message = answers[1].err.msg
            ELSE /\ resp.kind = "result"
                 /\ ~Unflagged(resp.result)

\* the viewer could not be resolved for linear-my-issues, and the read failed
C7_Witness ==
  /\ ReadingScheme("linear-my-issues")
  /\ ViewerUnresolved
  /\ resp.kind = "error"

\* C8: reading linear-issue://{id} of an issue created through
\* linear_create_issue and not updated since returns the title the issue was
\* created with and the identifier the tracker gave it.
C8_RoundTrip ==
  \A k \in 1..Len(store) :
    (/\ Reading
     /\ req.uri = Scheme("linear-issue") \o IssueId(k)
     /\ resp.kind = "result"
     /\ ~store[k].updated) =>
      /\ resp.result.text.title = created[k]
      /\ resp.result.text.identifier = Str(IssueIdentifier(k))

\* a created issue, not updated, was read back
C8_Witness ==
  /\ Len(store) >= 1
  /\ Reading
  /\ req.uri = Scheme("linear-issue") \o IssueId(1)
  /\ resp.kind = "result"
  /\ ~store[1].updated

\* the schema each tool declares
SchemaOf(name) ==
  CASE name = "linear_create_issue" -> CreateIssueArgsSchema
    [] name = "linear_update_issue" -> UpdateIssueArgsSchema
    [] name = "linear_search_issues" -> SearchIssuesArgsSchema
    [] name = "linear_get_user_issues" -> GetUserIssuesArgsSchema
    [] name = "linear_add_comment" -> AddCommentArgsSchema

\* the paths at which value v violates property f of a schema
FieldViolations(f, v) ==
  IF v = Undef THEN (IF f.required THEN {<<f.key>>} ELSE {})
  ELSE IF f.type = "string[]"
  THEN IF v.t # "array" THEN {<<f.key>>}
       ELSE {<<f.key, ToString(i - 1)>> :
               i \in {j \in 1..Len(v.items) : v.items[j].t # "string"}}
  ELSE IF v.t # f.type THEN {<<f.key>>}
  ELSE IF f.ranged /\ (v.twice < 2 * f.min \/ v.twice > 2 * f.max) THEN {<<f.key>>}
  ELSE {}

\* the paths at which the argument object violates the schema
Violations(schema, args) ==
  UNION {FieldViolations(schema[i], Get(args, schema[i].key)) : i \in 1..Len(schema)}

\* C9: a tool call whose argument object violates the tool's schema returns a
\* response that carries the error flag and a list with one entry, giving path
\* and message, for each violated path, and no remote call is made for it; a
\* tool call that succeeds returns a response without the error flag.
C9_ValidationResponse ==
  (Calling /\ req.name \in ToolNames /\ req.args # Undef) =>
    LET bad == Violations(SchemaOf(req.name), req.args) IN
      /\ bad # {} =>
           /\ calls = <<>>
           /\ resp.kind = "result"
           /\ Flagged(resp.result)
           /\ LET details == resp.result.content[1].text.error.details IN
                /\ Len(details) = Cardinality(bad)
                /\ {details[i].path : i \in 1..Len(details)} = bad
                /\ \A i \in 1..Len(details) : details[i].message # <<>>
      /\ (resp # NoResponse /\ CallToolTry(req.name, req.args, answers).k = "ok") =>
           /\ resp.kind = "result"
           /\ Unflagged(resp.result)

\* a create call violating its schema in two properties was refused with two
\* entries
C9_Witness ==
  /\ Calling
  /\ req.name = "linear_create_issue"
  /\ req.args # Undef
  /\ Cardinality(Violations(CreateIssueArgsSchema, req.args)) = 2
  /\ resp.kind = "result"
  /\ Flagged(resp.result)

\* the tool call being handled has ended in its catch block
ToolFailed ==
  /\ Calling
  /\ resp # NoResponse
  /\ CallToolTry(req.name, req.args, answers).k = "err"

\* C10 (as claimed): every failed tool call returns a payload that carries the
\* error flag, in the same place whatever the failure, and an error message.
C10_UniformErrorFlag ==
  ToolFailed =>
    /\ resp.kind = "result"
    /\ Flagged(resp.result)
    /\ "content" \in DOMAIN resp.result
    /\ "message" \in DOMAIN resp.result.content[1].text.error

\* startup has succeeded: the handlers are registered and the transport is
\* connected
Started == server.handlers = Methods /\ server.connected

\* C11 (as claimed): once startup has succeeded no request, whatever its
\* failure, terminates the process, and a request that has ended has an
\* error response or a result.
C11_NeverTerminates ==
  Started =>
    /\ process = Running
    /\ (req # NoRequest /\ Handler(req, answers).k # "call") => resp # NoResponse

\* the credential is absent or empty
NoCredential == apiKey = Undef \/ apiKey = Str(<<>>)

\* no request has been handled, and none is being handled
NothingHandled == req = NoRequest /\ calls = <<>> /\ store = <<>>

\* C12: without a credential no handler is ever registered, the transport is
\* never connected, no request is ever handled, and the one step the process
\* takes is to exit with a non-zero status; with a credential the first step
\* of the process registers the handlers, and the transport is connected only
\* after that.
C12_StartupContract ==
  /\ [](NoCredential =>
          /\ server.handlers = {}
          /\ ~server.connected
          /\ NothingHandled
          /\ process.exited => process.code # 0)
  /\ [][(NoCredential /\ process = Running) =>
          (process'.exited /\ process'.code # 0)]_vars
  /\ [](~NoCredential =>
          /\ server.connected => server.handlers = Methods
          /\ process.exited => server.handlers = Methods)
  /\ [][(~NoCredential /\ server.handlers = {}) =>
          (server'.handlers = Methods /\ process' = Running)]_vars

\* the process has exited for want of a credential
C12_Witness == NoCredential /\ process.exited

\* the parameter each templated scheme takes, as its error message names it
ParameterName(scheme) ==
  CASE scheme = "linear-issue" -> "Issue ID"
    [] scheme = "linear-team" -> "Team ID"
    [] scheme = "linear-user" -> "User ID"
    [] scheme = "linear-search" -> "Search query"
    [] scheme = "linear-priority" -> "Priority level"

\* C13: reading a templated scheme with an empty path parameter fails with an
\* error that names the missing parameter and the scheme, and no remote call
\* is made.
C13_EmptyParameter ==
  \A scheme \in TemplatedSchemes :
    (Reading /\ req.uri = Scheme(scheme)) =>
      /\ calls = <<>>
      /\ resp.kind = "error"
      /\ resp.message = <<ParameterName(scheme) \o " is required for " \o scheme \o " resource">>

\* linear-priority:// was read and refused
C13_Witness ==
  /\ Reading
  /\ req.uri = Scheme("linear-priority")
  /\ resp.kind = "error"
  /\ calls = <<>>

\* C14 (as claimed): the content of every successful read carries the URI
\* that was requested, character for character.
C14_SameUri ==
  (Reading /\ resp.kind = "result") => resp.result.uri = req.uri

\* v is an integer in 0..4
IntegerPriority(v) ==
  v.t = "number" /\ v.twice % 2 = 0 /\ v.twice \div 2 \in 0..4

\* linear_create_issue is being called with an arguments object
CreateCall == Calling /\ req.name = "linear_create_issue" /\ req.args # Undef

\* C15 (as claimed): a create call reaches the tracker only if title and
\* teamId are present and priority, when present, is an integer in 0..4; a
\* priority that is not such an integer is refused with a validation error.
C15_IntegerPriority ==
  CreateCall =>
    /\ CreateCalls # <<>> =>
         /\ req.args.title # Undef
         /\ req.args.teamId # Undef
         /\ req.args.priority = Undef \/ IntegerPriority(req.args.priority)
    /\ (req.args.priority # Undef /\ ~IntegerPriority(req.args.priority)) =>
         /\ calls = <<>>
         /\ resp.kind = "result"
         /\ Flagged(resp.result)

\* the names a tools/call request may carry
CalledNames == ToolNames \cup {"linear_delete_issue"}

\* the dispatcher has a case for name: called with an arguments object, it
\* does not end in the default case
Routed(name) ==
  LET step == CallToolTry(name, [id |-> S("x")], <<>>) IN
    ~(step.k = "err" /\ step.err.msg = <<"Unknown tool: ", name>>)

\* the first remote call of the adapter operation behind each tool
AdapterCalls(name) ==
  CASE name = "linear_create_issue" -> {"createIssue"}
    [] name = "linear_update_issue" -> {"issue"}
    [] name = "linear_search_issues" -> {"issues"}
    [] name = "linear_get_user_issues" -> {"viewer", "user"}
    [] name = "linear_add_comment" -> {"createComment"}

\* the names in the response to tools/list
ListedNames == {resp.result.tools[i] : i \in 1..Len(resp.result.tools)}

\* the response is the error response for an unknown tool
UnknownToolResponse ==
  /\ resp.kind = "result"
  /\ Flagged(resp.result)
  /\ resp.result.content[1].text.error.message = <<"Unknown tool: ", req.name>>

\* C16 (as claimed): every name outside the listed set yields an 'Unknown
\* tool' error response, whatever the rest of the call.
C16_UnknownToolForEveryOtherName ==
  (Calling /\ req.name \notin ToolNames) => UnknownToolResponse /\ calls = <<>>

\* C16: tools/list returns five distinct names, which are exactly the names
\* the dispatcher has a case for; a listed name called with valid arguments
\* reaches its adapter operation; a name outside the set, called with an
\* arguments object, yields an 'Unknown tool' error response and no remote
\* call.
C16_ToolRouting ==
  /\ (req.method = "tools/list" /\ resp # NoResponse) =>
       /\ resp.kind = "result"
       /\ Len(resp.result.tools) = 5
       /\ Cardinality(ListedNames) = 5
       /\ ListedNames = {name \in CalledNames : Routed(name)}
  /\ (Calling /\ req.args # Undef) =>
       IF Routed(req.name)
       THEN Violations(SchemaOf(req.name), req.args) = {} =>
              /\ calls # <<>>
              /\ calls[1][1].op \in AdapterCalls(req.name)
       ELSE UnknownToolResponse /\ calls = <<>>

\* a tool that is not listed was called with an arguments object and refused
C16_Witness ==
  Calling /\ req.args # Undef /\ ~Routed(req.name) /\ UnknownToolResponse

\* linear_search_issues is being called with the identifier parameter and
\* arguments that pass validation
IdentifierSearch ==
  /\ Calling
  /\ req.name = "linear_search_issues"
  /\ req.args # Undef
  /\ Get(req.args, "identifier") # Undef
  /\ Violations(SearchIssuesArgsSchema, req.args) = {}

\* C17 (as claimed): a search that supplies identifier sends the tracker a
\* filter that depends on the identifier: it has a clause on that value.
C17_IdentifierRestricts ==
  IdentifierSearch =>
    \A i \in 1..Len(Searches) :
      \E clause \in Searches[i].filter : clause.val = req.args.identifier

IsUpdate(c) == c.op = "issue.update"
\* the update mutations issued for the request being handled
UpdateCalls == SelectSeq(FlatCalls, IsUpdate)

\* linear_update_issue is being called with arguments that pass validation
UpdateCall ==
  /\ Calling
  /\ req.name = "linear_update_issue"
  /\ req.args # Undef
  /\ Violations(UpdateIssueArgsSchema, req.args) = {}

\* the lookup of the issue has been answered, with an issue or with none
LookupAnswered == Len(answers) >= 1 /\ answers[1].ok
LookupResolved == LookupAnswered /\ answers[1].val[1] # Undef

\* the message of the error response of a tool call
ToolErrorMessage == resp.result.content[1].text.error.message

\* C18: updateIssue first looks the issue up by id; when the id does not
\* resolve the call fails with a not-found error and no update is sent; when
\* it resolves exactly one update is sent, whose input has the value the
\* caller gave for each field supplied and no value for the others; when the
\* tracker returns no updated issue the call fails.
C18_UpdateAfterLookup ==
  UpdateCall =>
    /\ calls[1] = <<[op |-> "issue", id |-> req.args.id]>>
    /\ UpdateCalls # <<>> => LookupResolved
    /\ (LookupAnswered /\ ~LookupResolved) =>
         /\ UpdateCalls = <<>>
         /\ Len(calls) = 1
         /\ resp.kind = "result"
         /\ Flagged(resp.result)
         /\ ToolErrorMessage = <<"Issue ">> \o req.args.id.s \o <<" not found">>
    /\ LookupResolved =>
         /\ Len(UpdateCalls) = 1
         /\ calls[2] = <<UpdateCalls[1]>>
         /\ UpdateCalls[1].id = answers[1].val[1].id
         /\ UpdateCalls[1].input.title = req.args.title
         /\ UpdateCalls[1].input.description = req.args.description
         /\ UpdateCalls[1].input.priority = req.args.priority
         /\ UpdateCalls[1].input.stateId = req.args.status
    /\ (Len(answers) >= 2 /\ answers[2].ok /\ answers[2].val[1].issue = Undef) =>
         /\ Len(calls) = 2
         /\ resp.kind = "result"
         /\ Flagged(resp.result)
         /\ ToolErrorMessage = <<"Failed to update issue">>

\* an existing issue was updated with a new title only
C18_Witness ==
  /\ UpdateCall
  /\ LookupResolved
  /\ req.args.title = S("U")
  /\ req.args.priority = Undef
  /\ Len(UpdateCalls) = 1
  /\ resp.kind = "result"
  /\ Unflagged(resp.result)

\* linear_search_issues is being called with arguments that pass validation
SearchCall ==
  /\ Calling
  /\ req.name = "linear_search_issues"
  /\ req.args # Undef
  /\ Violations(SearchIssuesArgsSchema, req.args) = {}

\* the fields a search filters on
FilterFields ==
  {"query", "teamId", "status", "assigneeId", "labels", "priority", "estimate"}

\* the clause the filter has for a field with value v
ClauseFor(field, v) ==
  CASE field = "query" -> Clause("or", "title.contains|description.contains", v)
    [] field = "teamId" -> Clause("team", "id.eq", v)
    [] field = "status" -> Clause("state", "name.eq", v)
    [] field = "assigneeId" -> Clause("assignee", "id.eq", v)
    [] field = "labels" -> Clause("labels", "some.name.in", v)
    [] field = "priority" -> Clause("priority", "eq", v)
    [] field = "estimate" -> Clause("estimate", "eq", v)

\* the value is present and not empty: not the empty string, not the empty list
PresentValue(v) ==
  /\ v # Undef
  /\ v # Str(<<>>)
  /\ v # List(<<>>)

\* C19 (as claimed): the filter of a search is the conjunction of one clause
\* for each filter field present in the arguments, and has no clause for a
\* field that is absent or empty.
C19_ClausePerPresentField ==
  SearchCall =>
    \A i \in 1..Len(Searches) :
      Searches[i].filter =
        {ClauseFor(f, req.args[f]) : f \in {g \in FilterFields : PresentValue(req.args[g])}}

\* linear_get_user_issues is being called with arguments that pass validation
UserIssuesCall ==
  /\ Calling
  /\ req.name = "linear_get_user_issues"
  /\ req.args # Undef
  /\ Violations(GetUserIssuesArgsSchema, req.args) = {}

IsAssignedIssues(c) == c.op = "user.assignedIssues"
\* the assigned-issues queries issued for the request being handled
AssignedIssuesCalls == SelectSeq(FlatCalls, IsAssignedIssues)

\* the number of issues a successful search or user-issues tool call reports
ReportedCount ==
  CHOOSE n \in 0..(DefaultUserIssuesLimit + 1) :
    resp.result.content[1].text[2] = ToString(n)

\* the tool call has ended in a successful response
ToolSucceeded ==
  /\ resp # NoResponse
  /\ CallToolTry(req.name, req.args, answers).k = "ok"

\* C20 (as claimed): when a limit is supplied the page size requested equals
\* it and the number of issues returned does not exceed it; the defaults, 10
\* for searchIssues and 50 for getUserIssues, are used only when limit is
\* absent.
C20_LimitIsPageSize ==
  /\ SearchCall =>
       /\ \A i \in 1..Len(Searches) :
            Searches[i].first = IF req.args.limit = Undef THEN Num(10) ELSE req.args.limit
       /\ (ToolSucceeded /\ req.args.limit # Undef) =>
            2 * ReportedCount <= req.args.limit.twice
  /\ UserIssuesCall =>
       /\ \A i \in 1..Len(AssignedIssuesCalls) :
            AssignedIssuesCalls[i].first =
              IF req.args.limit = Undef THEN Num(50) ELSE req.args.limit
       /\ (ToolSucceeded /\ req.args.limit # Undef) =>
            2 * ReportedCount <= req.args.limit.twice

\* the answers to the request being handled in which the remote calls failed
FailedAnswers == {i \in 1..Len(answers) : ~answers[i].ok}

\* the response sent for the request being handled reports error err: as a
\* protocol error for a read, in the payload's text for a tool call
Reported(err) ==
  /\ resp # NoResponse
  /\ IF Reading
     THEN resp.kind = "error" /\ resp.message = err.msg
     ELSE /\ resp.kind = "result"
          /\ IF "content" \in DOMAIN resp.result
             THEN resp.result.content[1].text.error.message = err.msg
             ELSE resp.result.error.content[1].text.message = err.msg

\* No remote call was issued after one failed: a second attempt of the failed
\* call, or any other call, would be a batch following the failed one.
NothingAfterFailure == \A i \in FailedAnswers : Len(calls) = i

\* C21 (as claimed): within a request a remote call that failed is not
\* attempted again, no further remote call follows it, and the failure is
\* that request's response.
C21_NoRetries ==
  /\ NothingAfterFailure
  /\ \A i \in FailedAnswers : Reported(answers[i].err)

\* the same, as far as the process lives to respond
C21_NoRetriesWhileRunning ==
  /\ NothingAfterFailure
  /\ \A i \in FailedAnswers : process = Running => Reported(answers[i].err)

\* the invocation handling req
First == [req |-> req, calls |-> calls, answers |-> answers, resp |-> resp]

\* the response the handler of inv's request computes from that request and
\* the tracker's answers to inv's own remote calls
OwnResponse(inv) == Response(Handler(inv.req, inv.answers))

RelatedOps == {"issue.state", "issue.assignee", "issue.team", "issue.labels"}

\* batch b resolves the related entities of the items that the call before it
\* returned, in getIssue, searchIssues, getTeamIssues or listIssues
Resolving(b) ==
  /\ b > 1
  /\ calls[b][1].op \in RelatedOps
  /\ calls[b - 1][1].op # "user.assignedIssues"

\* the related entities the operation that made call c resolves for an item
ExpectedOps(c) ==
  CASE c.op = "issue" -> {"issue.state", "issue.assignee", "issue.team"}
    [] c.op = "issues" /\ "orderBy" \in DOMAIN c ->
         {"issue.state", "issue.assignee", "issue.team"}
    [] c.op = "issues" /\ "orderBy" \notin DOMAIN c ->
         {"issue.state", "issue.assignee", "issue.labels"}
    [] c.op = "team.issues" -> {"issue.state", "issue.assignee"}

\* the items whose related entities batch b resolves
Items(b) ==
  LET v == answers[b - 1].val[1] IN
    IF calls[b - 1][1].op = "issue" THEN {<<"issue", v.id>>}
    ELSE {<<"node", v.nodes[i]>> : i \in DOMAIN v.nodes}

\* the item a related fetch is for
ItemOf(c) == IF "node" \in DOMAIN c THEN <<"node", c.node>> ELSE <<"issue", c.issue>>

\* the fetches of batch b, as pairs of item and related entity
Fetched(b) == {<<ItemOf(calls[b][k]), calls[b][k].op>> : k \in DOMAIN calls[b]}

\* the request being handled has a response that is not a failure
Succeeded == resp.kind = "result" /\ Unflagged(resp.result)

\* C23: in getIssue, searchIssues, getTeamIssues and listIssues the related
\* fetches of all items are issued together, each once, before any is
\* awaited; a response that is not a failure is built only after all of them
\* were answered; when they fail the operation fails and no result, partial
\* or not, is returned.
C23_JoinedSubFetches ==
  \A b \in 1..Len(calls) : Resolving(b) =>
    /\ Fetched(b) = Items(b) \X ExpectedOps(calls[b - 1][1])
    /\ Len(calls[b]) = Cardinality(Fetched(b))
    /\ b < Len(calls) => ~Resolving(b + 1)
    /\ Succeeded => Len(answers) >= b /\ answers[b].ok
    /\ (Len(answers) >= b /\ ~answers[b].ok) => ~Succeeded

\* the related fetches of two or more items failed and the request has its response
C23_Witness ==
  \E b \in 1..Len(calls) :
    /\ Resolving(b)
    /\ Cardinality(Items(b)) > 1
    /\ Len(answers) = b
    /\ ~answers[b].ok
    /\ resp # NoResponse

\* a prompts/get request is being handled
Prompting == req.method = "prompts/get"

\* the five prompt names
FivePrompts ==
  {"create-issue", "bug-report", "sprint-planning", "work-status", "search-helper"}

\* the optional arguments of prompt `name`, with the value used when one is omitted
OptionalArguments(name) ==
  CASE name = "create-issue" -> [issueType |-> S("task"), component |-> Str(<<>>)]
    [] name = "bug-report" ->
         [severity |-> S("medium"), browser |-> Str(<<>>), platform |-> Str(<<>>)]
    [] name = "sprint-planning" -> [sprintDuration |-> S("2"), sprintGoals |-> Str(<<>>)]
    [] name = "work-status" ->
         [timeframe |-> S("week"), userId |-> S("me"), format |-> S("summary")]
    [] name = "search-helper" ->
         [keywords |-> Str(<<>>), status |-> Str(<<>>), assignee |-> Str(<<>>),
          priority |-> Str(<<>>)]

\* the optional arguments of prompt `name` that `arguments` omits
Omitted(name, arguments) ==
  {k \in DOMAIN OptionalArguments(name) :
     arguments = Undef \/ k \notin DOMAIN arguments \/ arguments[k] = Undef}

\* `arguments` with every omitted optional argument of prompt `name` given its default
Completed(name, arguments) ==
  LET given == IF arguments = Undef THEN {} ELSE DOMAIN arguments IN
    [k \in given \cup DOMAIN OptionalArguments(name) |->
       IF k \in Omitted(name, arguments) THEN OptionalArguments(name)[k]
       ELSE arguments[k]]

\* C24: a prompts/get request makes no remote call; for each of the five
\* prompt names it returns exactly two messages, of role user and of role
\* assistant, which are those returned when every omitted optional argument
\* is supplied with its default; for any other name it fails with 'Prompt not
\* found'.
C24_PromptMessages ==
  (Prompting /\ resp # NoResponse) =>
    /\ calls = <<>>
    /\ answers = <<>>
    /\ IF req.name \in FivePrompts
       THEN /\ resp.kind = "result"
            /\ Len(resp.result.messages) = 2
            /\ resp.result.messages[1].role = "user"
            /\ resp.result.messages[2].role = "assistant"
            /\ resp.result.messages =
                 GetPromptHandler(req.name, Completed(req.name, req.arguments)).val.messages
       ELSE /\ resp.kind = "error"
            /\ resp.message = <<"Prompt not found: ", req.name>>

\* a prompt was returned for arguments that give one of its optional
\* arguments and omit another whose default is not empty
C24_Witness ==
  /\ Prompting
  /\ resp # NoResponse
  /\ req.name \in FivePrompts
  /\ \E k \in Omitted(req.name, req.arguments) : OptionalArguments(req.name)[k] # Str(<<>>)
  /\ \E k \in DOMAIN OptionalArguments(req.name) \ Omitted(req.name, req.arguments) :
       req.arguments[k] # Str(<<>>)

\* the remote calls that change the tracker's data
MutationOps == {"createIssue", "issue.update", "createComment"}

IsMutation(c) == c.op \in MutationOps
\* the mutations sent for the request being handled
Mutations == SelectSeq(FlatCalls, IsMutation)

\* one of the three tools that write is being called
MutatingCall ==
  /\ Calling
  /\ req.name \in {"linear_create_issue", "linear_update_issue", "linear_add_comment"}

\* C25: a request sends at most one mutation, whether it succeeds or fails,
\* and sends one only when it is a call of linear_create_issue,
\* linear_update_issue or linear_add_comment; no step of any other request
\* (resource read, search, user issues, prompt, list) changes the tracker's
\* data.
C25_MutationsOnlyByThreeTools ==
  /\ [](/\ Len(Mutations) <= 1
        /\ Mutations # <<>> => MutatingCall)
  /\ [][store' # store => MutatingCall]_vars

\* a call of one of the three tools sent its mutation, the tracker rejected
\* it, and the call has its response
C25_Witness ==
  /\ MutatingCall
  /\ Len(Mutations) = 1
  /\ answers # <<>>
  /\ ~answers[Len(answers)].ok
  /\ calls[Len(answers)][1].op \in MutationOps
  /\ resp # NoResponse

\* a tool is being called without an arguments object
NoArguments == Calling /\ req.args = Undef

\* a tool is being called with the empty object
EmptyArguments ==
  /\ Calling
  /\ req.args # Undef
  /\ \A k \in DOMAIN req.args : req.args[k] = Undef

\* C26: a tool call without an arguments object gets the 'Missing arguments'
\* error response, whatever the tool name, listed or not, and makes no remote
\* call; linear_search_issues and linear_get_user_issues called with {} pass
\* validation, make their first remote call and, when the tracker answers,
\* return a result that is not an error.
C26_MissingArguments ==
  /\ NoArguments =>
       /\ calls = <<>>
       /\ resp.kind = "result"
       /\ Flagged(resp.result)
       /\ ToolErrorMessage = <<"Missing arguments">>
  /\ (EmptyArguments /\ req.name = "linear_search_issues") =>
       /\ calls # <<>>
       /\ calls[1][1].op = "issues"
       /\ (resp # NoResponse /\ AllAnswersOk) => Unflagged(resp.result)
  /\ (EmptyArguments /\ req.name = "linear_get_user_issues") =>
       /\ calls # <<>>
       /\ calls[1][1].op = "viewer"
       /\ (resp # NoResponse /\ AllAnswersOk /\ answers[1].val[1] # Undef) =>
            Unflagged(resp.result)

\* a tool that is not listed was called without an arguments object and answered
C26_Witness ==
  /\ NoArguments
  /\ req.name \notin ToolNames
  /\ resp # NoResponse

====
